---------------------------- MODULE Spec2Model ----------------------------
(***************************************************************************)
(* A model of the music pipeline of wad-music-test:                        *)
(*   - the conductor thread of Audio::play_timeline and the Player handle  *)
(*     (src/src/synth.rs),                                                 *)
(*   - build_timeline (src/src/midi.rs),                                   *)
(*   - mus_to_smf (src/src/mus.rs),                                        *)
(*   - the Wad archive (src/src/wad.rs).                                   *)
(* Spec is the conductor with its control handle; SpecLive adds the        *)
(* fairness of the thread scheduler; SpecPair and SpecHold keep the        *)
(* history of a pause, SpecSink the results of the sink calls and SpecNow  *)
(* the logical now of the latest clock read; SpecCallers has several       *)
(* threads inside the methods of one Player; SpecTimeline applies          *)
(* build_timeline to bounded tracks; SpecMus runs mus_to_smf and then      *)
(* build_timeline on bounded MUS blobs, SpecInstr, SpecChan, SpecBend and  *)
(* SpecCtl on scores made of whole instructions, SpecVar runs mus_to_smf   *)
(* alone on scores with long time values; SpecWad opens bounded container  *)
(* files and looks up, lists and reads their lumps.                        *)
(***************************************************************************)
EXTENDS Integers, Sequences, FiniteSets, TLC

VARIABLES
    mode,             \* which part of the pipeline this behaviour exercises
    \* ---- synth.rs: shared between Player and the conductor thread
    events,           \* tl.events.clone(), owned by the thread
    paused,           \* Arc<AtomicBool>
    stop_rx,          \* number of () messages waiting in the mpsc channel
    finished,         \* Arc<AtomicBool>
    poisoned,         \* the synth mutex is poisoned
    dropped,          \* the Player, and with it stop_tx, has been dropped
    \* ---- synth.rs: locals of the conductor thread
    pc,               \* position of the thread in its loop
    paused_since,     \* Option<Instant>: -1 is None
    paused_total_us,  \* accumulated paused micros
    i,                \* cursor into events (0-based, as in the source)
    wake,             \* end of the current thread::sleep
    \* ---- environment
    clock,            \* wall clock: micros since `start`, the thread's first Instant
    dispatched,       \* cursor values the dispatch branch has handled
    sinkCalls,        \* calls made on the synth, in order
    \* ---- history of the control calls
    ctlUsed,          \* pause(), toggle() or stop() has been called
    stopSeen,         \* try_recv() has returned Ok
    sinkAtStop,       \* Len(sinkCalls) when the first stop() returned, -1 before
    pauseAt,          \* time of the first pause(), -1 before, -2 if not paired
    pairD,            \* wall-clock length of that pause()/resume() pair, -1 if none
    pairNext,         \* index of the event that was next when pause() was called
    dispAtPause,      \* Len(dispatched) when the pause() that holds the flag
                      \* set returned, -1 when no pause() holds it
    sinkErrAt,        \* cursor values whose sink call returned Err
    lastNow,          \* now_us of the thread's latest clock read
    \* ---- midi.rs / mus.rs
    mus,              \* input bytes of mus_to_smf
    smf,              \* the Result<Smf>: [ok, header, tracks]
    tl,               \* the Timeline: [events, last_t_us, ppq, initial_us_per_qn]
    \* ---- wad.rs
    file,             \* bytes of the container file
    wad,              \* the Wad: [lumps, index, pos], pos being the file cursor
    wres,             \* outcome of Wad::open: "none", "Ok", "NotAWad" or "Io"
    ret,              \* what the last lookup, listing or read returned
    readFailed,       \* a read of this archive has returned an error
    \* ---- synth.rs: threads that share one &Player
    callers,          \* per caller: the method it calls, where it is in it,
                      \* and the local `now` of toggle()
    flag0             \* the pause flag before the callers' calls

synthVars == <<events, paused, stop_rx, finished, poisoned, dropped, pc,
               paused_since, paused_total_us, i, wake, clock, dispatched,
               sinkCalls>>
histVars  == <<ctlUsed, stopSeen, sinkAtStop, pauseAt, pairD, pairNext,
               dispAtPause, sinkErrAt, lastNow>>
pipeVars  == <<mus, smf, tl>>
wadVars   == <<file, wad, wres, ret, readFailed>>
callVars  == <<callers, flag0>>
vars      == <<mode, synthVars, histVars, pipeVars, wadVars, callVars>>

----------------------------------------------------------------------------
(* Bounds of the model *)

\* length of one clock tick in microseconds
TickUs == 5000
\* the wall clock runs from 0 to MaxClockTicks ticks
MaxClockTicks == 3
\* longest timeline handed to the conductor
MaxEvents == 2
\* largest event timestamp, in ticks
MaxStampTicks == 1
\* most stop() calls of one behaviour
MaxStops == 2

Min(a, b) == IF a <= b THEN a ELSE b
Max(a, b) == IF a >= b THEN a ELSE b

----------------------------------------------------------------------------
(* midi.rs: Msg and Timed *)

NoteOn(ch, key, vel)  == [kind |-> "NoteOn",  ch |-> ch, a |-> key, b |-> vel]
NoteOff(ch, key, vel) == [kind |-> "NoteOff", ch |-> ch, a |-> key, b |-> vel]
Program(ch, prog)     == [kind |-> "Program", ch |-> ch, a |-> prog, b |-> 0]
Control(ch, cc, val)  == [kind |-> "Control", ch |-> ch, a |-> cc, b |-> val]
PitchBend(ch, bend)   == [kind |-> "PitchBend", ch |-> ch, a |-> bend, b |-> 0]
AfterTouch(ch, key, vel) == [kind |-> "AfterTouch", ch |-> ch, a |-> key, b |-> vel]
ChannelAftertouch(ch, vel) == [kind |-> "ChannelAftertouch", ch |-> ch, a |-> vel, b |-> 0]
Tempo(us_per_qn)      == [kind |-> "Tempo", ch |-> 0, a |-> us_per_qn, b |-> 0]
Timed(t_us, msg)      == [t_us |-> t_us, msg |-> msg]

IsSortedByTime(evs) ==
    \A k \in 1..(Len(evs) - 1) : evs[k].t_us <= evs[k + 1].t_us

----------------------------------------------------------------------------
(* synth.rs: the conductor thread of play_timeline *)

\* u128 / u64 saturating subtraction
SatSub(a, b) == IF a >= b THEN a - b ELSE 0

\* The call the dispatch branch makes on the synth for one message:
\* <<>> for Tempo, which makes none.
SinkCall(e) ==
    CASE e.msg.kind = "NoteOn"    -> <<[op |-> "note_on", ch |-> e.msg.ch, a |-> e.msg.a, b |-> e.msg.b]>>
      [] e.msg.kind = "NoteOff"   -> <<[op |-> "note_off", ch |-> e.msg.ch, a |-> e.msg.a, b |-> 0]>>
      [] e.msg.kind = "Program"   -> <<[op |-> "program_change", ch |-> e.msg.ch, a |-> e.msg.a, b |-> 0]>>
      [] e.msg.kind = "Control"   -> <<[op |-> "cc", ch |-> e.msg.ch, a |-> e.msg.a, b |-> e.msg.b]>>
      [] e.msg.kind = "PitchBend" -> <<[op |-> "pitch_bend", ch |-> e.msg.ch, a |-> e.msg.a, b |-> 0]>>
      [] e.msg.kind = "AfterTouch" -> <<[op |-> "key_pressure", ch |-> e.msg.ch, a |-> e.msg.a, b |-> e.msg.b]>>
      [] e.msg.kind = "ChannelAftertouch" -> <<[op |-> "channel_pressure", ch |-> e.msg.ch, a |-> e.msg.a, b |-> 0]>>
      [] e.msg.kind = "Tempo"     -> <<>>

\* the sink calls a list of events makes when every one of them is dispatched
RECURSIVE SinkCallsOf(_)
SinkCallsOf(evs) ==
    IF evs = <<>> THEN <<>> ELSE SinkCall(Head(evs)) \o SinkCallsOf(Tail(evs))

\* timelines the conductor is started on: sorted, as build_timeline leaves them
\* (a Tempo event, when there is one, comes first, as in a converted MUS score)
SampleMsgs == {NoteOn(0, 60, 100), Tempo(1000000)}
SampleTimed == {Timed(k * TickUs, m) : k \in 0..MaxStampTicks, m \in SampleMsgs}
Timelines ==
    {s \in UNION {[1..n -> SampleTimed] : n \in 0..MaxEvents} :
        /\ IsSortedByTime(s)
        /\ \A k \in 2..Len(s) : s[k].msg.kind # "Tempo"}

SynthInit ==
    /\ events \in Timelines
    /\ paused = FALSE
    /\ stop_rx = 0
    /\ finished = FALSE
    /\ poisoned = FALSE
    /\ dropped = FALSE
    /\ pc = "stop_check"
    /\ paused_since = -1
    /\ paused_total_us = 0
    /\ i = 0
    /\ wake = 0
    /\ clock = 0
    /\ dispatched = <<>>
    /\ sinkCalls = <<>>
    /\ ctlUsed = FALSE
    /\ stopSeen = FALSE
    /\ sinkAtStop = -1
    /\ pauseAt = -1
    /\ pairD = -1
    /\ pairNext = -1
    /\ dispAtPause = -1
    /\ sinkErrAt = {}
    /\ lastNow = 0

PipeIdle ==
    /\ mus = <<>>
    /\ smf = [ok |-> FALSE, header |-> [metrical |-> FALSE, t |-> 0], tracks |-> <<>>]
    /\ tl = [events |-> <<>>, last_t_us |-> 0, ppq |-> 0, initial_us_per_qn |-> 0]

\* HashMap::new()
EmptyIndex == [n \in {} |-> <<>>]

\* no archive is open
NoWad == [lumps |-> <<>>, index |-> EmptyIndex, pos |-> 0]
NoRet == [op |-> "none", arg |-> <<>>, ok |-> TRUE, err |-> "", val |-> <<>>]

WadIdle ==
    /\ file = <<>>
    /\ wad = NoWad
    /\ wres = "none"
    /\ ret = NoRet
    /\ readFailed = FALSE

\* the Player is held by one thread only
CallIdle ==
    /\ callers = <<>>
    /\ flag0 = FALSE

Init == mode = "play" /\ SynthInit /\ PipeIdle /\ WadIdle /\ CallIdle

threadLocals == <<paused_since, paused_total_us, i, wake>>
shared       == <<paused, stop_rx, finished, poisoned, dropped>>
outputs      == <<dispatched, sinkCalls>>
frame        == <<mode, events, clock, pipeVars, wadVars, callVars>>

\* stop_rx.try_recv().is_ok(): Ok(()) when a message is waiting, Err(Empty)
\* or, once the sender is dropped, Err(Disconnected) when none is
StopRequestedNever == FALSE
StopRequested == stop_rx > 0

\* if stop_rx.try_recv().is_ok() { break 'play; }
StopCheck ==
    /\ mode \in {"play", "pair", "hold", "sink", "now"} /\ pc = "stop_check"
    /\ IF StopRequested
         THEN /\ stop_rx' = stop_rx - 1
              /\ stopSeen' = TRUE
              /\ pc' = "finish"
         ELSE /\ pc' = "pause_check"
              /\ UNCHANGED <<stop_rx, stopSeen>>
    /\ UNCHANGED <<threadLocals, paused, finished, poisoned, dropped, outputs,
                   frame, ctlUsed, sinkAtStop, pauseAt, pairD, pairNext,
                   dispAtPause, sinkErrAt, lastNow>>

\* std::thread::sleep(Duration::from_millis(10)) of the paused branch
PauseSleepUs == 10000

\* where the paused branch continues after its sleep: `continue` of 'play
AfterPauseSleepStuck == "pause_check"
AfterPauseSleep == "stop_check"

\* a sleep that would end after the last clock value ends at it: the last
\* clock value stands for every later time
Horizon == MaxClockTicks * TickUs
WakeAt(us) == Min(clock + us, Horizon)

\* if i >= events.len()
AtEndEarly(n) == n + 1 >= Len(events)
AtEnd(n) == n >= Len(events)

\* paused_t.load(SeqCst)
PausedLoadNever == FALSE
PausedLoad == paused

\* let span = since.elapsed().as_micros();
SpanFromStart(since) == clock
Span(since) == clock - since

\* if paused_t.load(SeqCst) { ... continue; } else if let Some(since) = ... ;
\* if i >= events.len() { break 'play; }
PauseCheck ==
    /\ mode \in {"play", "pair", "hold", "sink", "now"} /\ pc = "pause_check"
    /\ IF PausedLoad
         THEN /\ paused_since' = IF paused_since = -1 THEN clock ELSE paused_since
              /\ wake' = WakeAt(PauseSleepUs)
              /\ pc' = "pause_sleep"
              /\ UNCHANGED paused_total_us
         ELSE /\ IF paused_since # -1
                   THEN /\ paused_total_us' = paused_total_us + Span(paused_since)
                        /\ paused_since' = -1
                   ELSE UNCHANGED <<paused_since, paused_total_us>>
              /\ pc' = IF AtEnd(i) THEN "finish" ELSE "read_clock"
              /\ UNCHANGED wake
    /\ UNCHANGED <<i, shared, outputs, frame, histVars>>

PauseSleep ==
    /\ mode \in {"play", "pair", "hold", "sink", "now"} /\ pc = "pause_sleep"
    /\ clock >= wake
    /\ pc' = AfterPauseSleep
    /\ UNCHANGED <<threadLocals, shared, outputs, frame, histVars>>

\* let ms = min(5, wait_us / 1000); sleep ms millis, or 200 micros if ms = 0
WaitSleepUs(wait_us) ==
    LET ms == Min(5, wait_us \div 1000)
    IN  IF ms > 0 THEN ms * 1000 ELSE 200

\* let wall_us = start.elapsed().as_micros(); let now_us = wall_us.saturating_sub(paused_total_us)
NowUs(wall_us) == SatSub(wall_us, paused_total_us)

\* if now_us >= e.t_us
DueAlways(now_us, t_us) == TRUE
Due(now_us, t_us) == now_us >= t_us

ReadClock ==
    /\ mode \in {"play", "pair", "hold", "sink", "now"} /\ pc = "read_clock"
    /\ LET now_us == NowUs(clock)
           e == events[i + 1]
       IN  IF Due(now_us, e.t_us)
             THEN /\ pc' = "dispatch"
                  /\ UNCHANGED wake
             ELSE /\ wake' = WakeAt(WaitSleepUs(SatSub(e.t_us, now_us)))
                  /\ pc' = "wait_sleep"
    /\ lastNow' = IF mode = "now" THEN NowUs(clock) ELSE lastNow
    /\ UNCHANGED <<paused_since, paused_total_us, i, shared, outputs,
                   frame, ctlUsed, stopSeen, sinkAtStop, pauseAt, pairD,
                   pairNext, dispAtPause, sinkErrAt>>

WaitSleep ==
    /\ mode \in {"play", "pair", "hold", "sink", "now"} /\ pc = "wait_sleep"
    /\ clock >= wake
    /\ pc' = "stop_check"
    /\ UNCHANGED <<threadLocals, shared, outputs, frame, histVars>>

\* i += 1
NextCursorStuck(n) == n
NextCursor(n) == n + 1

\* what a call on the synth can return: Ok or Err. Every call is written
\* `let _ = s.note_on(..)`, so the result is dropped; it is kept, in
\* sinkErrAt, only in the behaviours that look at it
SinkResults(e) ==
    IF mode = "sink" /\ SinkCall(e) # <<>> THEN BOOLEAN ELSE {TRUE}

\* where the dispatch branch goes after the sink call: on to `i += 1` and
\* the next iteration, whatever the call returned
AfterSinkCallBail(ok) == IF ok THEN "stop_check" ELSE "finish"
AfterSinkCall(ok) == "stop_check"

\* if let Ok(s) = synth.lock() { match e.msg { ... } } else { break 'play; } i += 1;
Dispatch ==
    /\ mode \in {"play", "pair", "hold", "sink", "now"} /\ pc = "dispatch"
    /\ IF poisoned
         THEN /\ pc' = "finish"
              /\ UNCHANGED <<i, outputs, sinkErrAt>>
         ELSE \E ok \in SinkResults(events[i + 1]) :
              /\ sinkCalls' = sinkCalls \o SinkCall(events[i + 1])
              /\ sinkErrAt' = IF ok THEN sinkErrAt ELSE sinkErrAt \cup {i}
              /\ dispatched' = Append(dispatched, i)
              /\ i' = NextCursor(i)
              /\ pc' = AfterSinkCall(ok)
    /\ UNCHANGED <<paused_since, paused_total_us, wake, shared, frame,
                   ctlUsed, stopSeen, sinkAtStop, pauseAt, pairD, pairNext,
                   dispAtPause, lastNow>>

\* where the thread is after the store of finished: the closure has returned
AfterFinishLoop == "stop_check"
AfterFinish == "done"

\* finished_t.store(true, SeqCst); the closure returns and drops stop_rx
Finish ==
    /\ mode \in {"play", "pair", "hold", "sink", "now"} /\ pc = "finish"
    /\ finished' = TRUE
    /\ pc' = AfterFinish
    /\ UNCHANGED <<threadLocals, paused, stop_rx, poisoned, dropped, outputs,
                   frame, histVars>>

----------------------------------------------------------------------------
(* synth.rs: Player *)

\* the value pause() stores
PauseStoreFlip == ~paused
PauseStore == TRUE

\* pub fn pause(&self) { self.paused.store(true, SeqCst); }
Pause ==
    /\ mode \in {"play", "pair", "hold", "sink", "now"}
    /\ ~dropped
    /\ paused' = PauseStore
    /\ ctlUsed' = TRUE
    /\ IF mode = "pair" /\ ~paused /\ pauseAt = -1
         THEN pauseAt' = clock /\ pairNext' = Len(dispatched)
         ELSE UNCHANGED <<pauseAt, pairNext>>
    /\ dispAtPause' = IF mode # "hold" \/ ~paused' THEN -1
                      ELSE IF paused /\ dispAtPause >= 0 THEN dispAtPause
                      ELSE Len(dispatched)
    /\ UNCHANGED <<pc, threadLocals, stop_rx, finished, poisoned, dropped,
                   outputs, frame, stopSeen, sinkAtStop, pairD, sinkErrAt,
                   lastNow>>

\* pub fn resume(&self) { self.paused.store(false, SeqCst); }
Resume ==
    /\ mode \in {"play", "pair", "hold", "sink", "now"}
    /\ ~dropped
    /\ paused' = FALSE
    /\ dispAtPause' = -1
    /\ IF paused /\ pauseAt >= 0 /\ pairD = -1
         THEN IF Len(dispatched) = pairNext
                THEN pairD' = clock - pauseAt /\ UNCHANGED pauseAt
                ELSE pauseAt' = -2 /\ UNCHANGED pairD
         ELSE UNCHANGED <<pauseAt, pairD>>
    /\ UNCHANGED <<pc, threadLocals, stop_rx, finished, poisoned, dropped,
                   outputs, frame, ctlUsed, stopSeen, sinkAtStop, pairNext,
                   sinkErrAt, lastNow>>

\* pub fn toggle(&self) { let now = paused.load(); paused.store(!now); }
\* with the Player held by one thread: no other store comes between the
\* load and the store, and the conductor thread never stores the flag
Toggle ==
    /\ mode \in {"play", "pair", "hold", "sink", "now"}
    /\ ~dropped
    /\ paused' = ~paused
    /\ ctlUsed' = TRUE
    /\ pauseAt' = IF mode = "pair" /\ pairD = -1 THEN -2 ELSE pauseAt
    /\ dispAtPause' = -1
    /\ UNCHANGED <<pc, threadLocals, stop_rx, finished, poisoned, dropped,
                   outputs, frame, stopSeen, sinkAtStop, pairD, pairNext,
                   sinkErrAt, lastNow>>

\* pub fn stop(&self) { let _ = self.stop_tx.send(()); }
\* send fails, and is ignored, once the thread has dropped the receiver
Stop ==
    /\ mode \in {"play", "pair", "hold", "sink", "now"}
    /\ ~dropped
    /\ stop_rx + (IF stopSeen THEN 1 ELSE 0) < MaxStops
    /\ stop_rx' = IF pc = "done" THEN stop_rx ELSE stop_rx + 1
    /\ ctlUsed' = TRUE
    /\ sinkAtStop' = IF sinkAtStop = -1 THEN Len(sinkCalls) ELSE sinkAtStop
    /\ UNCHANGED <<pc, threadLocals, paused, finished, poisoned, dropped,
                   outputs, frame, stopSeen, pauseAt, pairD, pairNext,
                   dispAtPause, sinkErrAt, lastNow>>

\* the Player goes out of scope: stop_tx is dropped and the channel is
\* disconnected; the two flags stay with the thread's Arc clones
Drop ==
    /\ mode \in {"play", "pair", "hold", "sink", "now"}
    /\ ~dropped
    /\ dropped' = TRUE
    /\ UNCHANGED <<pc, threadLocals, paused, stop_rx, finished, poisoned,
                   outputs, frame, histVars>>

----------------------------------------------------------------------------
(* synth.rs: Player shared by several threads *)

\* Every method of Player takes &self and Player is Sync, so threads that
\* share a &Player can be inside its methods at the same time. The conductor
\* thread only loads the pause flag, so it is left out here.

\* threads sharing the Player, each making one call
MaxCallers == 2
Callers == 1..MaxCallers
PlayerMethods == {"pause", "resume", "toggle"}

Caller(op, at, now) == [op |-> op, at |-> at, now |-> now]

InitCallers ==
    /\ mode = "callers"
    /\ events = <<>>
    /\ paused \in BOOLEAN
    /\ flag0 = paused
    /\ callers \in [Callers -> {Caller(op, "ready", FALSE) : op \in PlayerMethods}]
    /\ stop_rx = 0 /\ finished = FALSE /\ poisoned = FALSE /\ dropped = FALSE
    /\ pc = "calls"
    /\ paused_since = -1 /\ paused_total_us = 0 /\ i = 0 /\ wake = 0
    /\ clock = 0 /\ dispatched = <<>> /\ sinkCalls = <<>>
    /\ ctlUsed = FALSE /\ stopSeen = FALSE /\ sinkAtStop = -1
    /\ pauseAt = -1 /\ pairD = -1 /\ pairNext = -1 /\ dispAtPause = -1
    /\ sinkErrAt = {}
    /\ lastNow = 0
    /\ PipeIdle
    /\ WadIdle

callRest == <<mode, events, pc, threadLocals, stop_rx, finished, poisoned,
              dropped, outputs, clock, histVars, pipeVars, wadVars, flag0>>

\* self.paused.store(true, SeqCst)
CallerPause(c) ==
    /\ mode = "callers"
    /\ callers[c].op = "pause" /\ callers[c].at = "ready"
    /\ paused' = PauseStore
    /\ callers' = [callers EXCEPT ![c].at = "returned"]
    /\ UNCHANGED callRest

\* self.paused.store(false, SeqCst)
CallerResume(c) ==
    /\ mode = "callers"
    /\ callers[c].op = "resume" /\ callers[c].at = "ready"
    /\ paused' = FALSE
    /\ callers' = [callers EXCEPT ![c].at = "returned"]
    /\ UNCHANGED callRest

\* let now = self.paused.load(SeqCst);
ToggleLoad(c) ==
    /\ mode = "callers"
    /\ callers[c].op = "toggle" /\ callers[c].at = "ready"
    /\ callers' = [callers EXCEPT ![c].at = "loaded", ![c].now = paused]
    /\ UNCHANGED <<paused, callRest>>

\* the value toggle() stores
ToggleStoreValue(now) == ~now

\* self.paused.store(!now, SeqCst);
ToggleStore(c) ==
    /\ mode = "callers"
    /\ callers[c].op = "toggle" /\ callers[c].at = "loaded"
    /\ paused' = ToggleStoreValue(callers[c].now)
    /\ callers' = [callers EXCEPT ![c].at = "returned"]
    /\ UNCHANGED callRest

NextCallers ==
    \E c \in Callers :
        \/ CallerPause(c)
        \/ CallerResume(c)
        \/ ToggleLoad(c)
        \/ ToggleStore(c)

SpecCallers == InitCallers /\ [][NextCallers]_vars

----------------------------------------------------------------------------
(* environment *)

\* the wall clock advances
Tick ==
    /\ mode \in {"play", "pair", "hold", "sink", "now"}
    /\ clock < Horizon
    /\ clock' = clock + TickUs
    /\ UNCHANGED <<mode, events, pc, threadLocals, shared, outputs, pipeVars,
                   wadVars, callVars, histVars>>

\* another holder of the synth mutex panics while holding it
Poison ==
    /\ mode \in {"play", "pair", "hold", "sink", "now"}
    /\ ~poisoned
    /\ poisoned' = TRUE
    /\ UNCHANGED <<pc, threadLocals, paused, stop_rx, finished, dropped,
                   outputs, frame, histVars>>

Next ==
    \/ StopCheck
    \/ PauseCheck
    \/ PauseSleep
    \/ ReadClock
    \/ WaitSleep
    \/ Dispatch
    \/ Finish
    \/ Pause
    \/ Resume
    \/ Toggle
    \/ Stop
    \/ Drop
    \/ Tick
    \/ Poison

Spec == Init /\ [][Next]_vars

\* the same program, with the history of the first pause()/resume() pair kept
InitPair == mode = "pair" /\ SynthInit /\ PipeIdle /\ WadIdle /\ CallIdle
SpecPair == InitPair /\ [][Next]_vars


\* the same program, with the dispatch count at the call of pause() kept
InitHold == mode = "hold" /\ SynthInit /\ PipeIdle /\ WadIdle /\ CallIdle
SpecHold == InitHold /\ [][Next]_vars

\* the same program, with the results of the sink calls kept
InitSink == mode = "sink" /\ SynthInit /\ PipeIdle /\ WadIdle /\ CallIdle
SpecSink == InitSink /\ [][Next]_vars

\* the same program, with the logical now of the latest clock read kept
InitNow == mode = "now" /\ SynthInit /\ PipeIdle /\ WadIdle /\ CallIdle
SpecNow == InitNow /\ [][Next]_vars

\* the scheduler runs the conductor thread whenever it can take a step, and
\* time passes
Fairness ==
    /\ WF_vars(StopCheck)
    /\ WF_vars(PauseCheck)
    /\ WF_vars(PauseSleep)
    /\ WF_vars(ReadClock)
    /\ WF_vars(WaitSleep)
    /\ WF_vars(Dispatch)
    /\ WF_vars(Finish)
    /\ WF_vars(Tick)

SpecLive == Init /\ [][Next]_vars /\ Fairness

----------------------------------------------------------------------------
(* midi.rs: build_timeline *)

\* midly::TrackEvent: delta ticks and kind; a Tempo meta event carries the
\* micros per quarter note in a, the end-of-track marker is "EndOfTrack" and
\* every other meta event is "Meta"
TrackEvent(delta, kind, ch, a, b) ==
    [delta |-> delta, kind |-> kind, ch |-> ch, a |-> a, b |-> b]

\* let ppq = match smf.header.timing { Metrical(t) => t, _ => 480.0 }
FallbackPpq == 480
Ppq(header) == IF header.metrical THEN header.t ELSE FallbackPpq

\* let mut default_us_per_qn: f64 = 500_000.0
DefaultUsPerQn == 500000

\* all events of all tracks, in scan order
RECURSIVE Flatten(_)
Flatten(tracks) ==
    IF tracks = <<>> THEN <<>> ELSE Head(tracks) \o Flatten(Tail(tracks))

\* 'scan: the first Tempo meta event of the file seeds the initial tempo
InitialTempo(tracks) ==
    LET tempos == SelectSeq(Flatten(tracks), LAMBDA ev : ev.kind = "Tempo")
    IN  IF tempos = <<>> THEN DefaultUsPerQn ELSE tempos[1].a

\* t_sec = abs_ticks / ppq * (us_per_qn / 1e6); t_us = (t_sec * 1e6) as u64
\* (the f64 arithmetic is modelled exactly, then truncated: the value is
\* floor(abs_ticks * us_per_qn / ppq), computed from the quotient and the
\* remainder of abs_ticks by ppq so that no product leaves 32 bits)
TicksToUs(abs_ticks, ppq, us_per_qn) ==
    (abs_ticks \div ppq) * us_per_qn
      + ((abs_ticks % ppq) * us_per_qn) \div ppq

\* NoteOn { key, vel } if vel.as_int() == 0
IsNoteOnZeroNever(ev) == FALSE
IsNoteOnZero(ev) == ev.kind = "NoteOn" /\ ev.b = 0

\* match ev.kind: the Timed events one track event pushes
Emit(ev, t_us) ==
    CASE ev.kind = "Tempo"      -> <<Timed(t_us, Tempo(ev.a))>>
      [] ev.kind = "Meta"       -> <<>>
      [] ev.kind = "EndOfTrack" -> <<>>
      [] IsNoteOnZero(ev)       -> <<Timed(t_us, NoteOff(ev.ch, ev.a, 0))>>
      [] ev.kind = "NoteOn" /\ ~IsNoteOnZero(ev)
                                -> <<Timed(t_us, NoteOn(ev.ch, ev.a, ev.b))>>
      [] ev.kind = "NoteOff"    -> <<Timed(t_us, NoteOff(ev.ch, ev.a, ev.b))>>
      [] ev.kind = "ProgramChange" -> <<Timed(t_us, Program(ev.ch, ev.a))>>
      [] ev.kind = "Controller" -> <<Timed(t_us, Control(ev.ch, ev.a, ev.b))>>
      [] ev.kind = "PitchBend"  -> <<Timed(t_us, PitchBend(ev.ch, ev.a))>>
      [] ev.kind = "Aftertouch" -> <<Timed(t_us, AfterTouch(ev.ch, ev.a, ev.b))>>
      [] ev.kind = "ChannelAftertouch"
                                -> <<Timed(t_us, ChannelAftertouch(ev.ch, ev.a))>>

\* for ev in tr: abs_ticks += delta; t_us from the current tempo; a Tempo
\* event updates us_per_qn for the events after it
RECURSIVE WalkTrack(_, _, _, _, _)
WalkTrack(tr, k, abs_ticks, us_per_qn, ppq) ==
    IF k > Len(tr) THEN <<>>
    ELSE LET ev == tr[k]
             ticks == abs_ticks + ev.delta
             t_us == TicksToUs(ticks, ppq, us_per_qn)
             next_tempo == IF ev.kind = "Tempo" THEN ev.a ELSE us_per_qn
         IN  Emit(ev, t_us) \o WalkTrack(tr, k + 1, ticks, next_tempo, ppq)

\* for tr in &smf.tracks: every track starts at tick 0 with the initial tempo
RECURSIVE WalkTracks(_, _, _)
WalkTracks(tracks, tempo, ppq) ==
    IF tracks = <<>> THEN <<>>
    ELSE WalkTrack(Head(tracks), 1, 0, tempo, ppq)
           \o WalkTracks(Tail(tracks), tempo, ppq)

\* events before the sort
Collected(s) == WalkTracks(s.tracks, InitialTempo(s.tracks), Ppq(s.header))

\* insert e behind every element whose key is not larger: a stable sort
RECURSIVE InsertByKey(_, _)
InsertByKey(sorted, e) ==
    IF sorted = <<>> THEN <<e>>
    ELSE IF Head(sorted).t_us <= e.t_us
           THEN <<Head(sorted)>> \o InsertByKey(Tail(sorted), e)
           ELSE <<e>> \o sorted

RECURSIVE SortFrom(_, _, _)
SortFrom(evs, k, acc) ==
    IF k > Len(evs) THEN acc ELSE SortFrom(evs, k + 1, InsertByKey(acc, evs[k]))

\* events.sort_by_key(|e| e.t_us)
SortByKeyNone(evs) == evs
SortByKey(evs) == SortFrom(evs, 1, <<>>)

\* let last_t_us = events.last().map(|e| e.t_us).unwrap_or(0)
LastTUs(evs) == IF evs = <<>> THEN 0 ELSE evs[Len(evs)].t_us

build_timeline(s) ==
    LET sorted == SortByKey(Collected(s))
    IN  [events |-> sorted,
         last_t_us |-> LastTUs(sorted),
         ppq |-> Ppq(s.header),
         initial_us_per_qn |-> InitialTempo(s.tracks)]

\* most track events of one input of build_timeline, over all its tracks
MaxTrackEvents == 3

\* one quarter note of the MUS header, in ticks
QuarterTicks == 140

SampleTrackEvents ==
    {TrackEvent(d, k[1], 0, k[2], k[3]) :
        d \in {0, QuarterTicks},
        k \in {<<"Tempo", 250000, 0>>, <<"Tempo", 1000000, 0>>,
               <<"NoteOn", 60, 0>>, <<"NoteOn", 60, 100>>,
               <<"NoteOff", 60, 64>>, <<"Meta", 0, 0>>}}

TracksOfLen(n) == [1..n -> SampleTrackEvents]

SampleHeaders == {[metrical |-> TRUE, t |-> QuarterTicks],
                  [metrical |-> FALSE, t |-> 0]}

\* the track lengths of a file of no, one or two tracks
TrackShapes ==
    {<<>>}
    \cup {<<n>> : n \in 0..MaxTrackEvents}
    \cup {m \in (1..MaxTrackEvents) \X (0..MaxTrackEvents) :
            m[1] + m[2] <= MaxTrackEvents}

TrackListsOf(shape) ==
    IF shape = <<>> THEN {<<>>}
    ELSE IF Len(shape) = 1 THEN {<<a>> : a \in TracksOfLen(shape[1])}
    ELSE TracksOfLen(shape[1]) \X TracksOfLen(shape[2])

SampleSmf(h, ts) == [ok |-> TRUE, header |-> h, tracks |-> ts]

SynthIdle ==
    /\ events = <<>>
    /\ paused = FALSE
    /\ stop_rx = 0
    /\ finished = FALSE
    /\ poisoned = FALSE
    /\ dropped = FALSE
    /\ paused_since = -1
    /\ paused_total_us = 0
    /\ i = 0
    /\ wake = 0
    /\ clock = 0
    /\ dispatched = <<>>
    /\ sinkCalls = <<>>
    /\ ctlUsed = FALSE
    /\ stopSeen = FALSE
    /\ sinkAtStop = -1
    /\ pauseAt = -1
    /\ pairD = -1
    /\ pairNext = -1
    /\ dispAtPause = -1
    /\ sinkErrAt = {}
    /\ lastNow = 0

NoTimeline ==
    [events |-> <<>>, last_t_us |-> 0, ppq |-> 0, initial_us_per_qn |-> 0]

InitTimeline ==
    /\ mode = "timeline"
    /\ SynthIdle
    /\ WadIdle
    /\ CallIdle
    /\ pc = "decoded"
    /\ mus = <<>>
    /\ \E h \in SampleHeaders, shape \in TrackShapes :
         \E ts \in TrackListsOf(shape) : smf = SampleSmf(h, ts)
    /\ tl = NoTimeline

\* let tl = build_timeline(&smf);
BuildTimeline ==
    /\ mode \in {"timeline", "mus"} /\ pc = "decoded"
    /\ tl' = build_timeline(smf)
    /\ pc' = "built"
    /\ UNCHANGED <<mode, events, paused_since, paused_total_us, i, wake, clock,
                   shared, outputs, histVars, mus, smf, wadVars, callVars>>

NextTimeline == BuildTimeline

SpecTimeline == InitTimeline /\ [][NextTimeline]_vars

----------------------------------------------------------------------------
(* Properties of build_timeline *)

\* C7: the events build_timeline returns are non-decreasing by t_us, and
\* last_t_us is the t_us of the last of them, or 0 when there is none.
C7_TimelineSorted ==
    pc = "built" =>
        /\ IsSortedByTime(tl.events)
        /\ tl.events # <<>> => tl.last_t_us = tl.events[Len(tl.events)].t_us
        /\ tl.events = <<>> => tl.last_t_us = 0

\* a built timeline whose events were out of order before the sort
C7_Witness ==
    /\ pc = "built"
    /\ mode = "timeline"
    /\ ~IsSortedByTime(Collected(smf))
    /\ Len(tl.events) = Len(Collected(smf))
    /\ tl.last_t_us > 0

\* how many elements of a sequence satisfy a test
Count(seq, Test(_)) == Len(SelectSeq(seq, Test))

\* the timestamps build_timeline gives the events of one track, one for each
\* track event, from the ticks elapsed and the tempo in force at each
RECURSIVE TrackTimes(_, _, _, _, _)
TrackTimes(tr, k, abs_ticks, us_per_qn, ppq) ==
    IF k > Len(tr) THEN <<>>
    ELSE LET ticks == abs_ticks + tr[k].delta
         IN  <<(ticks * us_per_qn) \div ppq>>
               \o TrackTimes(tr, k + 1, ticks,
                             IF tr[k].kind = "Tempo" THEN tr[k].a ELSE us_per_qn,
                             ppq)

\* C9: build_timeline emits no NoteOn of velocity 0: every input NoteOn of
\* velocity 0 is in the timeline as NoteOff(channel, key, 0) at its own
\* timestamp, every input NoteOn of velocity >= 1 as the same NoteOn, and no
\* other NoteOn appears.
C9_NoteOnZeroBecomesNoteOff ==
    pc = "built" =>
        LET all == Flatten(smf.tracks)
            times(tr) == TrackTimes(tr, 1, 0, tl.initial_us_per_qn, tl.ppq)
        IN  /\ \A k \in 1..Len(tl.events) :
                 ~(tl.events[k].msg.kind = "NoteOn" /\ tl.events[k].msg.b = 0)
            /\ \A n \in 1..Len(smf.tracks) : \A k \in 1..Len(smf.tracks[n]) :
                 LET ev == smf.tracks[n][k]
                     t == times(smf.tracks[n])[k]
                 IN  ev.kind = "NoteOn" =>
                       \E j \in 1..Len(tl.events) :
                          tl.events[j] =
                            Timed(t, IF ev.b = 0 THEN NoteOff(ev.ch, ev.a, 0)
                                     ELSE NoteOn(ev.ch, ev.a, ev.b))
            /\ Count(tl.events, LAMBDA e : e.msg.kind = "NoteOn")
                 = Count(all, LAMBDA ev : ev.kind = "NoteOn" /\ ev.b >= 1)
            /\ Count(tl.events, LAMBDA e : e.msg.kind = "NoteOff")
                 = Count(all, LAMBDA ev : ev.kind = "NoteOff"
                                          \/ (ev.kind = "NoteOn" /\ ev.b = 0))

\* a built timeline of an input holding a NoteOn of velocity 0 after a delta
\* and a NoteOn of velocity 100
C9_Witness ==
    /\ pc = "built"
    /\ mode = "timeline"
    /\ Count(Flatten(smf.tracks),
             LAMBDA ev : ev.kind = "NoteOn" /\ ev.b = 0 /\ ev.delta > 0) >= 1
    /\ Count(Flatten(smf.tracks), LAMBDA ev : ev.kind = "NoteOn" /\ ev.b >= 1) >= 1
    /\ Count(tl.events, LAMBDA e : e.msg.kind = "NoteOff" /\ e.t_us > 0) >= 1

----------------------------------------------------------------------------
(* mus.rs: mus_to_smf *)

\* a u32 as two 16-bit limbs, so that its width is kept
Limb == 65536
U32(n) == [hi |-> n \div Limb, lo |-> n % Limb]
U32Max == [hi |-> Limb - 1, lo |-> Limb - 1]

\* u32::saturating_add
SatAdd32(x, y) ==
    LET lo == x.lo + y.lo
        hi == x.hi + y.hi + (lo \div Limb)
    IN  IF hi >= Limb THEN U32Max ELSE [hi |-> hi, lo |-> lo % Limb]

\* (val << 7) | ((b & 0x7F) as u32), in u32: the bits shifted out are lost
ShiftIn7(val, b) ==
    LET lo == val.lo * 128 + (b % 128)
    IN  [hi |-> (val.hi * 128 + (lo \div Limb)) % Limb, lo |-> lo % Limb]

\* fn read_var_time(bytes: &[u8]) -> (u32, usize), on the bytes from index k
RECURSIVE ReadVarFrom(_, _, _, _)
ReadVarFrom(bytes, k, val, used) ==
    IF k > Len(bytes) THEN [val |-> val, used |-> used]
    ELSE LET b == bytes[k]
             v == ShiftIn7(val, b)
         IN  IF b < 128 THEN [val |-> v, used |-> used + 1]
             ELSE ReadVarFrom(bytes, k + 1, v, used + 1)

read_var_time_recount(bytes) ==
    LET r == ReadVarFrom(bytes, 1, U32(0), 0)
    IN  [val |-> r.val, used |-> r.used + 1]
read_var_time(bytes) == ReadVarFrom(bytes, 1, U32(0), 0)

\* fn map_channel(ch_mus: u8) -> u8
map_channel_no_shift(ch_mus) == IF ch_mus = 15 THEN 9 ELSE ch_mus
map_channel(ch_mus) ==
    IF ch_mus = 15 THEN 9
    ELSE IF ch_mus >= 9 THEN ch_mus + 1
    ELSE ch_mus

\* fn map_controller(c: u8) -> Option<u8>: -1 is None
map_controller_identity(c) == IF c \in 1..11 THEN c ELSE -1
map_controller(c) ==
    CASE c = 1 -> 0
      [] c = 2 -> 1
      [] c = 3 -> 7
      [] c = 4 -> 10
      [] c = 5 -> 11
      [] c = 6 -> 91
      [] c = 7 -> 93
      [] c = 8 -> 64
      [] c = 9 -> 67
      [] c = 10 -> 120
      [] c = 11 -> 123
      [] OTHER -> -1

\* midly's u7::from(u8) and u28::from(u32), behind `.into()`: the top bits
\* are dropped
U7(b) == b % 128
U28(x) == (x.hi % 4096) * Limb + x.lo

\* fn push(track, delta, kind)
push(track, delta, kind, ch, a, b) ==
    Append(track, TrackEvent(U28(delta), kind, ch, a, b))

\* let mut last_vel = [127u8; 16]
DefaultVel == 127
\* vel = vel.min(127)
VelCap == 127

\* the message a play-note instruction pushes
PlayNoteKindNormalised(vel) == IF vel = 0 THEN "NoteOff" ELSE "NoteOn"
PlayNoteKind(vel) == "NoteOn"

\* [127u8; 16], indexed by MUS channel
LastVelInitZero == [c \in 0..15 |-> 0]
LastVelInit == [c \in 0..15 |-> DefaultVel]

\* let centered = v - 128; let bend14 = (8192 + centered * 64).clamp(0, 16383)
\* in i32, then `as u16` and u14::from, which keep a value of 0..16383
Bend14Centre64(v) == Max(0, Min(16383, 8192 + (v - 64) * 128))
Bend14(v) ==
    LET centered == v - 128
    IN  Max(0, Min(16383, 8192 + centered * 64))

\* last_vel[ch_mus as usize] = vel
RememberVelAllChannels(last_vel, ch_mus, vel) == [c \in 0..15 |-> vel]
RememberVel(last_vel, ch_mus, vel) == [last_vel EXCEPT ![ch_mus] = vel]

\* the state of the decoding loop: the 0-based index i into the stream, the
\* pending delta, the remembered velocities (by MUS channel 0..15), the track
\* and whether the loop has been left
MusLoopInitNoTempo ==
    [i |-> 0, pending_delta |-> U32(0),
     last_vel |-> LastVelInit,
     track |-> <<>>,
     brk |-> FALSE]
MusLoopInit ==
    [i |-> 0, pending_delta |-> U32(0),
     last_vel |-> LastVelInit,
     track |-> <<TrackEvent(0, "Tempo", 0, 1000000, 0)>>,
     brk |-> FALSE]

\* `break`: the loop is left with the track as it stands
BreakDropsTrack(st) == [st EXCEPT !.brk = TRUE, !.track = <<st.track[1]>>]
Break(st) == [st EXCEPT !.brk = TRUE]

\* one iteration of `while i < stream.len()`, up to its break or to the
\* delta that follows the instruction; a break leaves i where the bytes read
\* so far have put it
MusInstr(stream, st) ==
    LET at(k) == stream[k + 1]
        n == Len(stream)
        ev == at(st.i)
        i1 == st.i + 1
        ty == (ev \div 16) % 8
        ch_mus == ev % 16
        ch == map_channel(ch_mus)
        out(k) == Break([st EXCEPT !.i = k])
    IN  CASE ty = 0 ->
               IF i1 >= n THEN out(i1)
               ELSE [st EXCEPT !.i = i1 + 1,
                               !.track = push(st.track, st.pending_delta,
                                              "NoteOff", ch, at(i1) % 128, 0),
                               !.pending_delta = U32(0)]
          [] ty = 1 ->
               IF i1 >= n THEN out(i1)
               ELSE IF at(i1) >= 128
                 THEN IF i1 + 1 >= n THEN out(i1 + 1)
                      ELSE LET vel == at(i1 + 1)
                           IN  [st EXCEPT
                                  !.i = i1 + 2,
                                  !.last_vel = RememberVel(st.last_vel, ch_mus, vel),
                                  !.track = push(st.track, st.pending_delta,
                                                 PlayNoteKind(Min(vel, VelCap)), ch,
                                                 U7(at(i1) % 128),
                                                 U7(Min(vel, VelCap))),
                                  !.pending_delta = U32(0)]
                 ELSE LET vel == st.last_vel[ch_mus]
                      IN  [st EXCEPT
                             !.i = i1 + 1,
                             !.track = push(st.track, st.pending_delta,
                                            PlayNoteKind(Min(vel, VelCap)), ch,
                                            U7(at(i1)), U7(Min(vel, VelCap))),
                             !.pending_delta = U32(0)]
          [] ty = 2 ->
               IF i1 >= n THEN out(i1)
               ELSE LET bend14 == Bend14(at(i1))
                    IN  [st EXCEPT !.i = i1 + 1,
                                   !.track = push(st.track, st.pending_delta,
                                                  "PitchBend", ch, bend14, 0),
                                   !.pending_delta = U32(0)]
          [] ty = 3 ->
               IF i1 >= n THEN out(i1) ELSE [st EXCEPT !.i = i1 + 1]
          [] ty = 4 ->
               IF i1 >= n THEN out(i1)
               ELSE IF i1 + 1 >= n THEN out(i1 + 1)
               ELSE LET ctrl == at(i1)
                        val == at(i1 + 1)
                    IN  IF ctrl = 0
                          THEN [st EXCEPT !.i = i1 + 2,
                                          !.track = push(st.track, st.pending_delta,
                                                         "ProgramChange", ch, U7(val), 0),
                                          !.pending_delta = U32(0)]
                          ELSE IF map_controller(ctrl) # -1
                            THEN [st EXCEPT !.i = i1 + 2,
                                            !.track = push(st.track, st.pending_delta,
                                                           "Controller", ch,
                                                           U7(map_controller(ctrl)),
                                                           U7(val)),
                                            !.pending_delta = U32(0)]
                            ELSE [st EXCEPT !.i = i1 + 2,
                                            !.pending_delta = U32(0)]
          [] ty = 5 -> [st EXCEPT !.i = i1]
          [] ty = 6 -> out(i1)
          [] ty = 7 ->
               IF i1 >= n THEN out(i1) ELSE [st EXCEPT !.i = i1 + 1]

\* if has_delta { let (d, used) = read_var_time(&stream[i..]); ... }
MusDelta(stream, ev, st) ==
    IF st.brk \/ ev < 128 THEN st
    ELSE LET r == read_var_time(SubSeq(stream, st.i + 1, Len(stream)))
         IN  [st EXCEPT !.i = st.i + r.used,
                        !.pending_delta = SatAdd32(st.pending_delta, r.val)]

\* while i < stream.len() { ... }
RECURSIVE MusLoop(_, _)
MusLoop(stream, st) ==
    IF st.brk \/ st.i >= Len(stream) THEN st
    ELSE MusLoop(stream, MusDelta(stream, stream[st.i + 1], MusInstr(stream, st)))

\* b"MUS\x1A"
MusMagic == <<77, 85, 83, 26>>
MusHeaderLen == 16

\* keep MUS ticks as PPQ=140
MusHeader == [metrical |-> TRUE, t |-> 140]

SmfErr == [ok |-> FALSE, header |-> [metrical |-> FALSE, t |-> 0], tracks |-> <<>>]

\* u16::from_le_bytes([mus[4], mus[5]]) and ([mus[6], mus[7]])
ScoreLen(m) == m[5] + 256 * m[6]
ScoreStart(m) == m[7] + 256 * m[8]

\* if end > mus.len() { bail!(...) }
RangeOutOfBoundsStrict(end, n) == end >= n
RangeOutOfBounds(end, n) == end > n

\* let stream = &mus[score_start..end]
StreamOf(m) == SubSeq(m, ScoreStart(m) + 1, ScoreStart(m) + ScoreLen(m))

\* MetaMessage::EndOfTrack with delta 0
EndOfTrack == TrackEvent(0, "EndOfTrack", 0, 0, 0)

\* pub fn mus_to_smf(mus: &[u8]) -> Result<Smf<'static>>
mus_to_smf(m) ==
    IF Len(m) < MusHeaderLen \/ SubSeq(m, 1, 4) # MusMagic THEN SmfErr
    ELSE IF RangeOutOfBounds(ScoreStart(m) + ScoreLen(m), Len(m)) THEN SmfErr
    ELSE LET track == MusLoop(StreamOf(m), MusLoopInit).track
         IN  [ok |-> TRUE, header |-> MusHeader,
              tracks |-> <<Append(track, EndOfTrack)>>]

\* longest score of a sample blob
MaxScoreLen == 5

\* play-note on channel 0 without and with a delta, key 60, 129 (key 1 with
\* the velocity flag, or the first byte of a longer delta), 0 (a velocity, a
\* delta, or release-note on channel 0), end-of-score, and end-of-measure
\* with a delta
SampleBytes == {16, 144, 60, 129, 0, 96, 208}
ScoresOfLen(n) == [1..n -> SampleBytes]

\* a blob with the given tag and declared score range, followed by 8 header
\* bytes and the body
RawBlob(tag, score_len, score_start, body) ==
    tag \o <<score_len % 256, score_len \div 256,
             score_start % 256, score_start \div 256>>
        \o <<0, 0, 0, 0, 0, 0, 0, 0>> \o body

\* the 16-byte header declaring the score at offset 16, then the score
MusBlob(score) == RawBlob(MusMagic, Len(score), 16, score)

\* blobs mus_to_smf rejects: empty, short, wrong tag, score range past the end
BadBlobs ==
    {<<>>,
     SubSeq(MusBlob(<<16, 60, 96>>), 1, 15),
     <<77, 85, 83>>,
     RawBlob(<<77, 85, 83, 0>>, 3, 16, <<16, 60, 96>>),
     RawBlob(<<80, 85, 83, 26>>, 3, 16, <<16, 60, 96>>),
     SubSeq(MusBlob(<<16, 60, 96>>), 1, 18),
     RawBlob(MusMagic, 0, 20, <<16, 60, 96>>),
     RawBlob(MusMagic, 259, 16, <<16, 60, 96>>),
     RawBlob(MusMagic, 3, 272, <<16, 60, 96>>)}

\* blobs it accepts whose score is not the whole rest of the input: a score
\* inside the header, a score followed by other bytes, a score that starts
\* after the header
OddBlobs ==
    {RawBlob(MusMagic, 16, 0, <<>>),
     RawBlob(MusMagic, 0, 0, <<>>),
     RawBlob(MusMagic, 2, 16, <<16, 60, 96, 16>>),
     RawBlob(MusMagic, 2, 17, <<96, 16, 60>>),
     RawBlob(MusMagic, 0, 19, <<16, 60, 96>>)}

\* longest sample score in ticks: its timestamps in microseconds, at the
\* tempo and the quarter note of mus_to_smf, stay within 31 bits
MaxScoreTicks == 280000

RECURSIVE TotalTicks(_)
TotalTicks(track) ==
    IF track = <<>> THEN 0 ELSE Head(track).delta + TotalTicks(Tail(track))

FitsClock(m) ==
    LET r == mus_to_smf(m)
    IN  r.ok => TotalTicks(r.tracks[1]) <= MaxScoreTicks

InitMus ==
    /\ mode = "mus"
    /\ SynthIdle
    /\ WadIdle
    /\ CallIdle
    /\ pc = "input"
    /\ \/ mus \in BadBlobs \cup OddBlobs
       \/ \E n \in 0..MaxScoreLen : \E sc \in ScoresOfLen(n) :
             mus = MusBlob(sc) /\ FitsClock(mus)
    /\ smf = SmfErr
    /\ tl = NoTimeline

\* let smf = match mus_to_smf(&bytes) { Ok(s) => s, Err(e) => { ...; continue; } };
MusToSmf ==
    /\ mode \in {"mus", "var"} /\ pc = "input"
    /\ smf' = mus_to_smf(mus)
    /\ pc' = IF smf'.ok THEN "decoded" ELSE "error"
    /\ UNCHANGED <<mode, events, paused_since, paused_total_us, i, wake, clock,
                   shared, outputs, histVars, mus, tl, wadVars, callVars>>

NextMus ==
    \/ MusToSmf
    \/ BuildTimeline

SpecMus == InitMus /\ [][NextMus]_vars

\* The same decoder on scores made of whole instructions.

\* most instructions of a sample score
MaxInstrs == 3

\* an instruction byte: bit 7 flags a delta, bits 4..6 are the type, bits
\* 0..3 the MUS channel
InstrByte(has_delta, ty, ch_mus) ==
    (IF has_delta THEN 128 ELSE 0) + ty * 16 + ch_mus

\* key byte of a play-note that carries a velocity byte
KeyWithVel(key) == 128 + key

\* release-note, play-note without and with a velocity byte (on channels 0
\* and 1, velocities below and above 127), pitch wheel, system event,
\* controllers (volume, program change, an id map_controller does not know),
\* end of measure, the unused type, and end of score; some with a delta
SampleInstrs ==
    {<<InstrByte(FALSE, 0, 0), 60>>,
     <<InstrByte(FALSE, 1, 0), 60>>,
     <<InstrByte(TRUE, 1, 0), 60, 3>>,
     <<InstrByte(FALSE, 1, 0), KeyWithVel(60), 200>>,
     <<InstrByte(FALSE, 1, 0), KeyWithVel(60), 90>>,
     <<InstrByte(FALSE, 1, 1), 62>>,
     <<InstrByte(FALSE, 1, 1), KeyWithVel(62), 50>>,
     <<InstrByte(FALSE, 2, 0), 128>>,
     <<InstrByte(TRUE, 3, 0), 0, 16>>,
     <<InstrByte(FALSE, 4, 0), 3, 100>>,
     <<InstrByte(FALSE, 4, 0), 0, 5>>,
     <<InstrByte(FALSE, 4, 0), 60, 0>>,
     <<InstrByte(TRUE, 5, 0), 5>>,
     <<InstrByte(TRUE, 7, 0), 0, 7>>,
     <<InstrByte(FALSE, 6, 0)>>}

RECURSIVE Concat(_)
Concat(seqs) == IF seqs = <<>> THEN <<>> ELSE Head(seqs) \o Concat(Tail(seqs))

InitInstr ==
    /\ mode = "mus"
    /\ SynthIdle
    /\ WadIdle
    /\ CallIdle
    /\ pc = "input"
    /\ \E n \in 0..MaxInstrs : \E is \in [1..n -> SampleInstrs] :
          mus = MusBlob(Concat(is))
    /\ smf = SmfErr
    /\ tl = NoTimeline

SpecInstr == InitInstr /\ [][NextMus]_vars

\* The same decoder on two one-byte-payload instructions (release-note,
\* play-note or pitch wheel) on any two of the 16 MUS channels.
ChannelScores ==
    {<<InstrByte(FALSE, t1, c1), 60, InstrByte(FALSE, t2, c2), 62>> :
        t1 \in 0..2, c1 \in 0..15, t2 \in 0..2, c2 \in 0..15}

InitChan ==
    /\ mode = "mus"
    /\ SynthIdle
    /\ WadIdle
    /\ CallIdle
    /\ pc = "input"
    /\ \E sc \in ChannelScores : mus = MusBlob(sc)
    /\ smf = SmfErr
    /\ tl = NoTimeline

SpecChan == InitChan /\ [][NextMus]_vars

\* The same decoder on pitch-wheel instructions: every byte 0..255 on its
\* own, on the first, a shifted and the rhythm channel, and every byte
\* followed by the next one up.
BendScores ==
    {<<InstrByte(FALSE, 2, c), v>> : c \in {0, 9, 15}, v \in 0..255}
        \cup {<<InstrByte(FALSE, 2, 0), v, InstrByte(FALSE, 2, 0), v + 1>> :
                  v \in 0..254}

InitBend ==
    /\ mode = "mus"
    /\ SynthIdle
    /\ WadIdle
    /\ CallIdle
    /\ pc = "input"
    /\ \E sc \in BendScores : mus = MusBlob(sc)
    /\ smf = SmfErr
    /\ tl = NoTimeline

SpecBend == InitBend /\ [][NextMus]_vars

\* The same decoder on one controller-change instruction, with or without a
\* delta, followed by a play-note of key 60 on channel 0: every id the
\* table knows, the ids around it and some far from it, values on both
\* sides of 127, on the first and on the rhythm channel.
SampleCtlIds == 0..15 \cup {60, 127, 128, 255}
SampleCtlValues == {0, 5, 100, 127, 200}
FollowingNote == <<InstrByte(FALSE, 1, 0), 60>>
ControllerScores ==
    {<<InstrByte(FALSE, 4, c), id, val>> \o FollowingNote :
        c \in {0, 15}, id \in SampleCtlIds, val \in SampleCtlValues}
    \cup {<<InstrByte(TRUE, 4, c), id, val, 3>> \o FollowingNote :
        c \in {0, 15}, id \in SampleCtlIds, val \in SampleCtlValues}

InitCtl ==
    /\ mode = "mus"
    /\ SynthIdle
    /\ WadIdle
    /\ CallIdle
    /\ pc = "input"
    /\ \E sc \in ControllerScores : mus = MusBlob(sc)
    /\ smf = SmfErr
    /\ tl = NoTimeline

SpecCtl == InitCtl /\ [][NextMus]_vars

\* The decoder alone on an end-of-measure instruction with a time value of
\* up to MaxVarLen bytes, on its own or followed by a play-note.
MaxVarLen == 5
SampleVarBytes == {0, 5, 127, 128, 144, 255}
VarBytesOfLen(n) == [1..n -> SampleVarBytes]

InitVar ==
    /\ mode = "var"
    /\ SynthIdle
    /\ WadIdle
    /\ CallIdle
    /\ pc = "input"
    /\ \E n \in 1..MaxVarLen : \E vb \in VarBytesOfLen(n) :
         \E rest \in {<<>>, FollowingNote} :
            mus = MusBlob(<<InstrByte(TRUE, 5, 0)>> \o vb \o rest)
    /\ smf = SmfErr
    /\ tl = NoTimeline

SpecVar == InitVar /\ [][MusToSmf]_vars

----------------------------------------------------------------------------
(* wad.rs: Wad *)

\* Names, queries and prefixes are strings of ASCII codes. char::to_uppercase
\* and to_ascii_uppercase agree on them: a..z go to A..Z, the rest stays.
ToUpper(c) == IF c >= 97 /\ c <= 122 THEN c - 32 ELSE c
to_uppercase(str) == [k \in 1..Len(str) |-> ToUpper(str[k])]
to_ascii_uppercase(str) == [k \in 1..Len(str) |-> ToUpper(str[k])]

\* b.split(|&c| c == 0).next(): the bytes before the first NUL
RECURSIVE UpToNul(_)
UpToNul(b) ==
    IF b = <<>> \/ Head(b) = 0 THEN <<>> ELSE <<Head(b)>> \o UpToNul(Tail(b))

\* fn bytes_to_lump_name(b: &[u8; 8]) -> String
bytes_to_lump_name(b) == to_uppercase(UpToNul(b))

\* u32::from_le_bytes(b); the sample files keep the value below 2^31
from_le_bytes(b) == b[1] + 256 * b[2] + 65536 * b[3] + 16777216 * b[4]

\* Read::read_exact of n bytes with the file cursor at pos: the bytes and the
\* cursor behind them, or an error with the cursor at the end of the file
\* (or where it was, when that is further)
read_exact(f, pos, n) ==
    IF pos + n <= Len(f)
      THEN [ok |-> TRUE, bytes |-> SubSeq(f, pos + 1, pos + n), pos |-> pos + n]
      ELSE [ok |-> FALSE, bytes |-> <<>>, pos |-> Max(pos, Len(f))]

\* b"IWAD" and b"PWAD"
IWAD == <<73, 87, 65, 68>>
PWAD == <<80, 87, 65, 68>>

\* pub struct Lump { name, filepos, size }
Lump(name, filepos, size) == [name |-> name, filepos |-> filepos, size |-> size]

\* for _ in 0..numlumps { filepos, size, name_bytes; lumps.push(...) }
\* (the three reads of one record are one read of 16 bytes)
RECURSIVE ReadDirectory(_, _, _, _)
ReadDirectory(f, pos, remaining, lumps) ==
    IF remaining = 0 THEN [ok |-> TRUE, lumps |-> lumps, pos |-> pos]
    ELSE LET r == read_exact(f, pos, 16)
         IN  IF ~r.ok THEN [ok |-> FALSE, lumps |-> <<>>, pos |-> r.pos]
             ELSE ReadDirectory(f, r.pos, remaining - 1,
                    Append(lumps,
                           Lump(bytes_to_lump_name(SubSeq(r.bytes, 9, 16)),
                                from_le_bytes(SubSeq(r.bytes, 1, 4)),
                                from_le_bytes(SubSeq(r.bytes, 5, 8)))))

\* the position index.entry(name).or_default().push(i) pushes for lump i
IndexPosZero(k) == 0
IndexPos(k) == k

\* for (i, l) in lumps.iter().enumerate() { index.entry(...).push(i) }
RECURSIVE BuildIndex(_, _, _)
BuildIndex(lumps, k, index) ==
    IF k >= Len(lumps) THEN index
    ELSE LET n == lumps[k + 1].name
             old == IF n \in DOMAIN index THEN index[n] ELSE <<>>
         IN  BuildIndex(lumps, k + 1,
                [x \in DOMAIN index \cup {n} |->
                    IF x = n THEN Append(old, IndexPos(k)) ELSE index[x]])

WadErr(kind) == [res |-> kind, wad |-> NoWad]

\* pub fn open(path) -> Result<Self>: the header is read whole, then the tag
\* is checked, then the directory is read and the index built
open(f) ==
    LET ident == read_exact(f, 0, 4)
        numlumps == read_exact(f, ident.pos, 4)
        infoofs == read_exact(f, numlumps.pos, 4)
    IN  IF ~ident.ok \/ ~numlumps.ok \/ ~infoofs.ok THEN WadErr("Io")
        ELSE IF ident.bytes # IWAD /\ ident.bytes # PWAD THEN WadErr("NotAWad")
        ELSE LET dir == ReadDirectory(f, from_le_bytes(infoofs.bytes),
                                      from_le_bytes(numlumps.bytes), <<>>)
             IN  IF ~dir.ok THEN WadErr("Io")
                 ELSE [res |-> "Ok",
                       wad |-> [lumps |-> dir.lumps,
                                index |-> BuildIndex(dir.lumps, 0, EmptyIndex),
                                pos |-> dir.pos]]

\* the key a lookup uses: &name.to_uppercase()
KeyOfRaw(name) == name
KeyOf(name) == to_uppercase(name)

\* pub fn find_all(&self, name: &str) -> Option<&[usize]>
find_all(w, name) ==
    IF KeyOf(name) \in DOMAIN w.index
      THEN [some |-> TRUE, ids |-> w.index[KeyOf(name)]]
      ELSE [some |-> FALSE, ids |-> <<>>]

\* pub fn contains(&self, name: &str) -> bool
contains(w, name) == KeyOf(name) \in DOMAIN w.index

\* pub fn get_first(&self, name: &str) -> Option<&Lump>
get_first(w, name) ==
    LET r == find_all(w, name)
    IN  IF r.some /\ r.ids # <<>>
          THEN [some |-> TRUE, lump |-> w.lumps[r.ids[1] + 1]]
          ELSE [some |-> FALSE, lump |-> Lump(<<>>, 0, 0)]

\* str::starts_with
starts_with(str, p) == Len(p) <= Len(str) /\ SubSeq(str, 1, Len(p)) = p

\* prefixes.iter().map(|p| p.to_ascii_uppercase()).collect()
PrefixKeyRaw(p) == p
PrefixKey(p) == to_ascii_uppercase(p)
Ups(prefixes) == [k \in 1..Len(prefixes) |-> PrefixKey(prefixes[k])]

\* ups.iter().any(|p| l.name.starts_with(p))
MatchesAny(l, ups) == \E k \in 1..Len(ups) : starts_with(l.name, ups[k])

\* pub fn iter_with_prefixes(&self, prefixes: &[&str]), collected
iter_with_prefixes(w, prefixes) ==
    SelectSeq(w.lumps, LAMBDA l : MatchesAny(l, Ups(prefixes)))

\* pub fn list_with_prefixes(&self, prefixes: &[&str]) -> Vec<&Lump>
list_with_prefixes(w, prefixes) ==
    SelectSeq(w.lumps, LAMBDA l : MatchesAny(l, Ups(prefixes)))

\* self.file.seek(SeekFrom::Start(start))
SeekStay(pos, start) == pos
SeekTo(pos, start) == start

ReadErr(kind, pos) == [ok |-> FALSE, err |-> kind, bytes |-> <<>>, pos |-> pos]

\* fn read_span(&mut self, start: u64, len: usize) -> Result<Vec<u8>>
read_span(f, pos, start, len) ==
    LET r == read_exact(f, SeekTo(pos, start), len)
    IN  IF r.ok THEN [ok |-> TRUE, err |-> "", bytes |-> r.bytes, pos |-> r.pos]
        ELSE ReadErr("Io", r.pos)

\* pub fn read_at(&mut self, idx: usize) -> Result<Vec<u8>>
read_at(f, w, idx) ==
    IF idx >= Len(w.lumps) THEN ReadErr("OutOfRange", w.pos)
    ELSE read_span(f, w.pos, w.lumps[idx + 1].filepos, w.lumps[idx + 1].size)

\* pub fn read(&mut self, name: &str) -> Result<Vec<u8>>
read(f, w, name) ==
    LET r == find_all(w, name)
    IN  IF ~r.some \/ r.ids = <<>> THEN ReadErr("LumpNotFound", w.pos)
        ELSE read_at(f, w, r.ids[1])

\* most lumps of a sample archive
MaxLumps == 3

\* w.write_all(&v.to_le_bytes())
write_le_u32(v) ==
    <<v % 256, (v \div 256) % 256, (v \div 65536) % 256, v \div 16777216>>

\* name[..n].copy_from_slice(...) into [0u8; 8]
Pad8(str) == str \o [k \in 1..(8 - Len(str)) |-> 0]

\* "D_A", "d_a", and "HI" followed by a NUL and an X
SampleNames == {<<68, 95, 65>>, <<100, 95, 97>>, <<72, 73, 0, 88>>}

\* the data, and a span that runs past the end of the file
SampleSpans == {<<12, 4>>, <<14, 100>>}

SampleEntries ==
    {[name |-> Pad8(nm), filepos |-> sp[1], size |-> sp[2]] :
        nm \in SampleNames, sp \in SampleSpans}

RECURSIVE DirBytes(_)
DirBytes(es) ==
    IF es = <<>> THEN <<>>
    ELSE write_le_u32(Head(es).filepos) \o write_le_u32(Head(es).size)
           \o Head(es).name \o DirBytes(Tail(es))

\* the file make_fake_wad writes: header, 4 bytes of lump data, directory
MakeWad(ident, es) ==
    ident \o write_le_u32(Len(es)) \o write_le_u32(16) \o <<1, 2, 3, 4>>
          \o DirBytes(es)

\* "XXXX"
BadTag == <<88, 88, 88, 88>>
HelloEntry == [name |-> Pad8(<<72, 73>>), filepos |-> 12, size |-> 2]

\* files with a tag that is neither IWAD nor PWAD, of 4, 8, 11 and 12 bytes
\* and with a whole directory
BadTagFiles ==
    {BadTag,
     BadTag \o <<0, 0, 0, 0>>,
     BadTag \o <<0, 0, 0, 0, 0, 0, 0>>,
     BadTag \o <<0, 0, 0, 0, 0, 0, 0, 0>>,
     <<105, 119, 97, 100>> \o <<0, 0, 0, 0, 0, 0, 0, 0>>,
     MakeWad(BadTag, <<HelloEntry>>)}

\* the empty file, files cut inside the tag, the header or the directory, a
\* PWAD, and an archive of no lumps whose directory offset is past the end
OddFiles ==
    {<<>>,
     <<73, 87, 65>>,
     IWAD \o <<0, 0, 0, 0>>,
     SubSeq(MakeWad(IWAD, <<HelloEntry, HelloEntry>>), 1, 40),
     MakeWad(PWAD, <<HelloEntry>>),
     IWAD \o write_le_u32(0) \o write_le_u32(1000)}

\* names asked for: "d_a", "D_A", "hi", "D_", "zz"
SampleQueries ==
    {<<100, 95, 97>>, <<68, 95, 65>>, <<104, 105>>, <<68, 95>>, <<122, 122>>}

\* prefix lists: none, "d_", "D_" and "HI", "D" and "d_", the empty prefix,
\* "h" and "zz"
SamplePrefixLists ==
    {<<>>,
     <<<<100, 95>>>>,
     <<<<68, 95>>, <<72, 73>>>>,
     <<<<68>>, <<100, 95>>>>,
     <<<<>>>>,
     <<<<104>>, <<122, 122>>>>}

InitWad ==
    /\ mode = "wad"
    /\ SynthIdle
    /\ PipeIdle
    /\ CallIdle
    /\ pc = "closed"
    /\ \/ file \in BadTagFiles \cup OddFiles
       \/ \E n \in 0..MaxLumps : \E es \in [1..n -> SampleEntries] :
             file = MakeWad(IWAD, es)
    /\ wad = NoWad
    /\ wres = "none"
    /\ ret = NoRet
    /\ readFailed = FALSE

\* let mut wad = Wad::open(&opt.wad)?;
WadOpen ==
    /\ mode = "wad" /\ pc = "closed"
    /\ LET r == open(file)
       IN  /\ wres' = r.res
           /\ wad' = r.wad
           /\ pc' = IF r.res = "Ok" THEN "open" ELSE "failed"
    /\ UNCHANGED <<mode, events, paused_since, paused_total_us, i, wake, clock,
                   shared, outputs, histVars, pipeVars, callVars, file, ret,
                   readFailed>>

wadRest == <<mode, events, pc, paused_since, paused_total_us, i, wake, clock,
             shared, outputs, histVars, pipeVars, callVars, file, wres>>

\* find_all, contains and get_first of one name
Lookup ==
    /\ mode = "wad" /\ pc = "open"
    /\ \E name \in SampleQueries :
         ret' = [op |-> "lookup", arg |-> name, ok |-> TRUE, err |-> "",
                 val |-> <<find_all(wad, name), contains(wad, name),
                           get_first(wad, name)>>]
    /\ UNCHANGED <<wadRest, wad, readFailed>>

\* list_with_prefixes and iter_with_prefixes of one prefix list
ListPrefixes ==
    /\ mode = "wad" /\ pc = "open"
    /\ \E ps \in SamplePrefixLists :
         ret' = [op |-> "list", arg |-> ps, ok |-> TRUE, err |-> "",
                 val |-> <<list_with_prefixes(wad, ps),
                           iter_with_prefixes(wad, ps)>>]
    /\ UNCHANGED <<wadRest, wad, readFailed>>

\* wad.read_at(idx)
ReadAt ==
    /\ mode = "wad" /\ pc = "open"
    /\ \E idx \in 0..MaxLumps :
         LET r == read_at(file, wad, idx)
         IN  /\ ret' = [op |-> "read_at", arg |-> idx, ok |-> r.ok,
                        err |-> r.err, val |-> r.bytes]
             /\ wad' = [wad EXCEPT !.pos = r.pos]
             /\ readFailed' = (readFailed \/ ~r.ok)
    /\ UNCHANGED wadRest

\* wad.read(&candidate)
Read ==
    /\ mode = "wad" /\ pc = "open"
    /\ \E name \in SampleQueries :
         LET r == read(file, wad, name)
         IN  /\ ret' = [op |-> "read", arg |-> name, ok |-> r.ok,
                        err |-> r.err, val |-> r.bytes]
             /\ wad' = [wad EXCEPT !.pos = r.pos]
             /\ readFailed' = (readFailed \/ ~r.ok)
    /\ UNCHANGED wadRest

NextWad ==
    \/ WadOpen
    \/ Lookup
    \/ ListPrefixes
    \/ ReadAt
    \/ Read

SpecWad == InitWad /\ [][NextWad]_vars

----------------------------------------------------------------------------
(* Properties of mus_to_smf *)

\* the score stream of a blob mus_to_smf accepts
ScoreOf(m) == StreamOf(m)

\* the decoding of a score runs into a play-note (on channel 0) that carries
\* the explicit velocity byte 0
RECURSIVE HasPlayNoteVelZero(_, _)
HasPlayNoteVelZero(stream, st) ==
    IF st.brk \/ st.i >= Len(stream) THEN FALSE
    ELSE LET ev == stream[st.i + 1]
         IN  \/ /\ (ev \div 16) % 8 = 1
                /\ st.i + 2 < Len(stream)
                /\ stream[st.i + 2] >= 128
                /\ stream[st.i + 3] = 0
             \/ HasPlayNoteVelZero(stream,
                    MusDelta(stream, ev, MusInstr(stream, st)))

\* C8 as stated: a play-note with the explicit velocity byte 0 gives a
\* NoteOff, so the track mus_to_smf returns holds no NoteOn of velocity 0.
C8_VelZeroIsNoteOffInTrack ==
    (pc \in {"decoded", "built"} /\ mode = "mus") =>
        \A k \in 1..Len(smf.tracks[1]) :
            ~(smf.tracks[1][k].kind = "NoteOn" /\ smf.tracks[1][k].b = 0)

\* C8 amended: the track mus_to_smf returns holds a NoteOn of velocity 0
\* exactly when the score has a play-note with the explicit velocity byte 0;
\* it is build_timeline that turns each of them into a NoteOff, so that the
\* timeline holds no NoteOn of velocity 0.
C8_VelZeroIsNoteOffInTimeline ==
    (pc \in {"decoded", "built"} /\ mode = "mus") =>
        /\ HasPlayNoteVelZero(ScoreOf(mus), MusLoopInit)
             <=> \E k \in 1..Len(smf.tracks[1]) :
                    smf.tracks[1][k].kind = "NoteOn" /\ smf.tracks[1][k].b = 0
        /\ pc = "built" =>
             /\ \A k \in 1..Len(tl.events) :
                  ~(tl.events[k].msg.kind = "NoteOn" /\ tl.events[k].msg.b = 0)
             /\ Count(tl.events, LAMBDA e : e.msg.kind = "NoteOff")
                  = Count(smf.tracks[1],
                          LAMBDA ev : ev.kind = "NoteOff"
                                      \/ (ev.kind = "NoteOn" /\ ev.b = 0))

\* the timeline of a score whose play-note carries the velocity byte 0
C8_Witness ==
    /\ mode = "mus"
    /\ pc = "built"
    /\ HasPlayNoteVelZero(ScoreOf(mus), MusLoopInit)
    /\ Count(tl.events, LAMBDA e : e.msg.kind = "NoteOff" /\ e.msg.b = 0) >= 1

\* C10: for the minimal blob, mus_to_smf returns exactly [Tempo, NoteOn(0, k,
\* 127), EndOfTrack] and build_timeline of it holds exactly one non-tempo
\* event, at timestamp 0.
C10_MinimalBlobRoundTrip ==
    (mode = "mus" /\ Len(mus) = MusHeaderLen + 3
       /\ SubSeq(mus, 1, 8) = MusMagic \o <<3, 0, 16, 0>>
       /\ mus[17] = 16 /\ mus[18] < 128 /\ mus[19] = 96) =>
        /\ pc # "error"
        /\ pc \in {"decoded", "built"} =>
             /\ smf.ok
             /\ Len(smf.tracks) = 1
             /\ smf.tracks[1] = <<TrackEvent(0, "Tempo", 0, 1000000, 0),
                                   TrackEvent(0, "NoteOn", 0, mus[18], 127),
                                   EndOfTrack>>
        /\ pc = "built" =>
             LET rest == SelectSeq(tl.events, LAMBDA e : e.msg.kind # "Tempo")
             IN  /\ rest = <<Timed(0, NoteOn(0, mus[18], 127))>>
                 /\ Len(tl.events) = 2

\* the minimal blob with key 60 has been decoded and its timeline built
C10_Witness ==
    /\ mode = "mus"
    /\ pc = "built"
    /\ mus = MusBlob(<<16, 60, 96>>)
    /\ Len(tl.events) = 2

\* C11: mus_to_smf returns an error exactly when the input is shorter than
\* 16 bytes, or its first 4 bytes are not "MUS\x1A", or score_start +
\* score_len exceeds the input length; every other input gives Ok.
C11_ErrorExactlyOnBadHeader ==
    (mode = "mus" /\ pc # "input") =>
        /\ pc = "error" <=>
              \/ Len(mus) < 16
              \/ <<mus[1], mus[2], mus[3], mus[4]>> # <<77, 85, 83, 26>>
              \/ (mus[7] + 256 * mus[8]) + (mus[5] + 256 * mus[6]) > Len(mus)
        /\ smf.ok <=> pc # "error"

\* an input of 16 bytes or more with the right tag has been rejected for its
\* score range
C11_Witness ==
    /\ mode = "mus"
    /\ pc = "error"
    /\ Len(mus) >= 16
    /\ SubSeq(mus, 1, 4) = MusMagic

IsPrefix(a, b) == Len(a) <= Len(b) /\ SubSeq(b, 1, Len(a)) = a

\* the events of a returned track before its final end-of-track marker
BeforeEnd(track) == SubSeq(track, 1, Len(track) - 1)

\* the score stream cut after its first k bytes, as a blob
CutBlob(m, k) == MusBlob(SubSeq(ScoreOf(m), 1, k))

\* C12: for every score stream and every cut of it, at any byte position,
\* decoding the cut stream succeeds and the events it returns before the
\* end-of-track marker are a prefix of the events returned for the whole.
C12_TruncationGivesPrefix ==
    (mode = "mus" /\ pc \in {"decoded", "built"}) =>
        \A k \in 0..Len(ScoreOf(mus)) :
            LET r == mus_to_smf(CutBlob(mus, k))
            IN  /\ r.ok
                /\ IsPrefix(BeforeEnd(r.tracks[1]), BeforeEnd(smf.tracks[1]))

\* a decoded score with an end-of-measure carrying a two-byte delta and then
\* a play-note: the cut inside the delta returns the tempo event alone, the
\* cut inside the play-note too, the whole score the note after the delta
C12_Witness ==
    /\ mode = "mus"
    /\ pc = "decoded"
    /\ ScoreOf(mus) = <<208, 129, 0, 16, 60>>
    /\ Len(smf.tracks[1]) = 3
    /\ smf.tracks[1][2].delta = 128
    /\ Len(mus_to_smf(CutBlob(mus, 2)).tracks[1]) = 2
    /\ Len(mus_to_smf(CutBlob(mus, 4)).tracks[1]) = 2

\* C13: every successful result is a single track that starts with a Tempo
\* event of delta 0, ends with an EndOfTrack marker, and holds no other
\* Tempo or EndOfTrack event.
C13_TempoFirstEndOfTrackLast ==
    (mode = "mus" /\ pc \in {"decoded", "built"}) =>
        /\ Len(smf.tracks) = 1
        /\ LET t == smf.tracks[1]
           IN  /\ Len(t) >= 2
               /\ t[1].kind = "Tempo" /\ t[1].delta = 0
               /\ t[Len(t)].kind = "EndOfTrack"
               /\ \A k \in 2..(Len(t) - 1) :
                     t[k].kind \notin {"Tempo", "EndOfTrack"}

\* a decoded score that ends in the middle of its second play-note
C13_Witness ==
    /\ mode = "mus"
    /\ pc = "decoded"
    /\ ScoreOf(mus) = <<16, 60, 16>>
    /\ Len(smf.tracks[1]) = 3

----------------------------------------------------------------------------
(* Properties of Wad *)

\* C14 as stated: every file whose leading 4-byte tag is neither IWAD nor
\* PWAD, of whatever length, makes Wad::open fail with NotAWad and return no
\* handle.
C14_BadTagGivesNotAWad ==
    (mode = "wad" /\ pc # "closed"
       /\ Len(file) >= 4 /\ SubSeq(file, 1, 4) \notin {IWAD, PWAD}) =>
        /\ pc = "failed"
        /\ wres = "NotAWad"
        /\ wad = NoWad

ToLower(c) == IF c >= 65 /\ c <= 90 THEN c + 32 ELSE c

\* the strings that differ from str in letter case only
RECURSIVE CaseVariants(_)
CaseVariants(str) ==
    IF str = <<>> THEN {<<>>}
    ELSE {<<c>> \o v : c \in {ToUpper(Head(str)), ToLower(Head(str))},
                       v \in CaseVariants(Tail(str))}

\* the lists that differ from strs in the letter case of their strings only
RECURSIVE ListVariants(_)
ListVariants(strs) ==
    IF strs = <<>> THEN {<<>>}
    ELSE {<<p>> \o ps : p \in CaseVariants(Head(strs)),
                        ps \in ListVariants(Tail(strs))}

SameLetters(a, b) ==
    Len(a) = Len(b) /\ \A k \in 1..Len(a) : ToUpper(a[k]) = ToUpper(b[k])

\* the 0-based positions of the lumps of that name, letter case apart
PositionsOf(w, name) ==
    {p \in 0..(Len(w.lumps) - 1) : SameLetters(w.lumps[p + 1].name, name)}

\* C15: find_all, contains and get_first answer alike for all letter-case
\* variants of a name; get_first is present exactly when find_all is
\* non-empty; its lump is the one at the first position of find_all, which
\* is the earliest lump of that name in file order.
C15_LookupsCaseInsensitive ==
    (mode = "wad" /\ pc = "open") =>
        \A name \in SampleQueries :
            LET fa == find_all(wad, name)
                gf == get_first(wad, name)
                at == PositionsOf(wad, name)
            IN  /\ \A v \in CaseVariants(name) :
                     /\ find_all(wad, v) = fa
                     /\ contains(wad, v) = contains(wad, name)
                     /\ get_first(wad, v) = gf
                /\ gf.some <=> (fa.some /\ fa.ids # <<>>)
                /\ gf.some <=> at # {}
                /\ gf.some =>
                     /\ gf.lump = wad.lumps[fa.ids[1] + 1]
                     /\ fa.ids[1] \in at
                     /\ \A p \in at : fa.ids[1] <= p

\* "d_a" has been looked up in an archive that holds two lumps of that name
C15_Witness ==
    /\ mode = "wad"
    /\ ret.op = "lookup"
    /\ ret.arg = <<100, 95, 97>>
    /\ Len(ret.val[1].ids) = 2
    /\ ret.val[2]
    /\ ret.val[3].some
    /\ ret.val[3].lump = wad.lumps[1]
    /\ wad.lumps[1] # wad.lumps[2]

StartsWithAnyCase(str, p) ==
    Len(p) <= Len(str) /\ \A k \in 1..Len(p) : ToUpper(str[k]) = ToUpper(p[k])

\* C16: list_with_prefixes and iter_with_prefixes yield the same sequence,
\* the lumps whose name starts with one of the prefixes, letter case apart,
\* in file order and each once, whatever the letter case of the prefixes.
C16_PrefixListing ==
    (mode = "wad" /\ pc = "open") =>
        \A ps \in SamplePrefixLists :
            LET expected ==
                    SelectSeq(wad.lumps,
                              LAMBDA l : \E k \in 1..Len(ps) :
                                            StartsWithAnyCase(l.name, ps[k]))
            IN  \A vs \in ListVariants(ps) :
                    /\ list_with_prefixes(wad, vs) = expected
                    /\ iter_with_prefixes(wad, vs) = expected

\* "D" and "d_" have been listed in an archive of two lumps that both match
\* both prefixes, next to a lump matching none
C16_Witness ==
    /\ mode = "wad"
    /\ ret.op = "list"
    /\ ret.arg = <<<<68>>, <<100, 95>>>>
    /\ Len(wad.lumps) = 3
    /\ wad.lumps[2].name = <<72, 73>>
    /\ ret.val[1] = <<wad.lumps[1], wad.lumps[3]>>
    /\ ret.val[2] = ret.val[1]

\* what a read of the lump at 0-based position idx returns, from the file
\* and the lump list alone
ExpectedReadAt(idx) ==
    IF idx >= Len(wad.lumps) THEN [ok |-> FALSE, err |-> "OutOfRange", val |-> <<>>]
    ELSE LET l == wad.lumps[idx + 1]
         IN  IF l.filepos + l.size <= Len(file)
               THEN [ok |-> TRUE, err |-> "",
                     val |-> SubSeq(file, l.filepos + 1, l.filepos + l.size)]
               ELSE [ok |-> FALSE, err |-> "Io", val |-> <<>>]

ExpectedRead(name) ==
    IF PositionsOf(wad, name) = {}
      THEN [ok |-> FALSE, err |-> "LumpNotFound", val |-> <<>>]
      ELSE ExpectedReadAt(CHOOSE p \in PositionsOf(wad, name) :
                             \A q \in PositionsOf(wad, name) : p <= q)

ReadAsExpected ==
    /\ ret.op = "read_at" =>
         [ok |-> ret.ok, err |-> ret.err, val |-> ret.val] = ExpectedReadAt(ret.arg)
    /\ ret.op = "read" =>
         [ok |-> ret.ok, err |-> ret.err, val |-> ret.val] = ExpectedRead(ret.arg)

\* C17: a read that fails returns an error for that call only: no read,
\* failed or not, changes the lump list or the name index, and every read,
\* also after failed ones, returns what the file and the lump list say.
C17_FailedReadLeavesArchive ==
    /\ [](mode = "wad" => ReadAsExpected)
    /\ [][(mode = "wad" /\ pc = "open") =>
            (wad'.lumps = wad.lumps /\ wad'.index = wad.index)]_vars

\* a lump has been read by name after a read of this archive had failed
C17_Witness ==
    /\ mode = "wad"
    /\ readFailed
    /\ ret.op = "read"
    /\ ret.ok
    /\ ret.val = <<1, 2, 3, 4>>
    /\ \E k \in 1..Len(wad.lumps) : wad.lumps[k].size = 100

\* C18: in an open archive, every position stored in the index is a valid
\* index into the lump list, every lump position appears exactly once, under
\* the key equal to the lump's name, and the positions under a key ascend.
C18_IndexMatchesLumps ==
    (mode = "wad" /\ pc = "open") =>
        /\ \A key \in DOMAIN wad.index :
             /\ \A k \in 1..Len(wad.index[key]) :
                  /\ wad.index[key][k] \in 0..(Len(wad.lumps) - 1)
                  /\ wad.lumps[wad.index[key][k] + 1].name = key
             /\ \A k \in 1..(Len(wad.index[key]) - 1) :
                  wad.index[key][k] < wad.index[key][k + 1]
        /\ \A p \in 0..(Len(wad.lumps) - 1) :
             /\ wad.lumps[p + 1].name \in DOMAIN wad.index
             /\ Cardinality({k \in 1..Len(wad.index[wad.lumps[p + 1].name]) :
                               wad.index[wad.lumps[p + 1].name][k] = p}) = 1

\* an archive with two lumps under one key and a third under another, after
\* a failed read and a lookup
C18_Witness ==
    /\ mode = "wad"
    /\ pc = "open"
    /\ readFailed
    /\ ret.op = "lookup"
    /\ Len(wad.lumps) = 3
    /\ Cardinality(DOMAIN wad.index) = 2

----------------------------------------------------------------------------
(* Properties of the conductor *)

\* events[k] for the 0-based cursor values of a list
EventsAt(idxs) == [k \in 1..Len(idxs) |-> events[idxs[k] + 1]]

\* the cursor values 0, 1, ..., n-1
CursorPrefix(n) == [k \in 1..n |-> k - 1]

\* C1 as stated: the calls made on the sink are, one for one, the calls of
\* the first events of the list (every event of the prefix reaches the sink).
C1_SinkCallsArePrefixOfEvents ==
    /\ Len(sinkCalls) <= Len(events)
    /\ \A k \in 1..Len(sinkCalls) : SinkCall(events[k]) = <<sinkCalls[k]>>

\* C1 amended: under any interleaving of pause/resume/toggle/stop the events
\* the dispatch branch handles are a prefix of the list in list order (none
\* skipped, repeated or reordered), with non-decreasing timestamps, and the
\* calls made on the sink are those of that prefix without its Tempo events,
\* which make no sink call.
C1_DispatchIsPrefix ==
    /\ Len(dispatched) <= Len(events)
    /\ dispatched = CursorPrefix(Len(dispatched))
    /\ IsSortedByTime(EventsAt(dispatched))
    /\ sinkCalls = SinkCallsOf(SelectSeq(EventsAt(dispatched),
                                         LAMBDA e : e.msg.kind # "Tempo"))

\* two events handled, one of them a Tempo, with control calls in between
C1_Witness ==
    /\ ctlUsed
    /\ Len(dispatched) = 2
    /\ Len(sinkCalls) = 1

\* C2 as stated: once stop() has returned, no further sink call is made.
C2_NoSinkCallAfterStop ==
    sinkAtStop # -1 => Len(sinkCalls) = sinkAtStop

\* C2 amended: once stop() has returned the thread makes at most one further
\* sink call (the dispatch of the iteration whose stop check came before the
\* stop), and none once its stop check has seen the signal.
C2_AtMostOneSinkCallAfterStop ==
    /\ sinkAtStop # -1 => Len(sinkCalls) <= sinkAtStop + 1
    /\ stopSeen => pc \in {"finish", "done"}

\* a sink call was made after stop() returned, and the thread then stopped
C2_Witness ==
    /\ sinkAtStop # -1
    /\ Len(sinkCalls) = sinkAtStop + 1
    /\ stopSeen
    /\ i < Len(events)

\* C3: after stop() has been called, in any state, the thread eventually sets
\* finished, with no further control call.
C3_StopLeadsToFinished == (sinkAtStop # -1) ~> finished

\* stop() was seen and the thread finished with the pause flag still set
C3_Witness ==
    /\ stopSeen
    /\ paused
    /\ finished
    /\ i < Len(events)

\* C4 as stated: the event that was next when a pause()/resume() pair of
\* wall-clock length D was made is dispatched no sooner than D after its
\* timestamp, the earliest moment an unpaused run dispatches it.
C4_PauseDelaysNextDispatch ==
    [][(Dispatch /\ ~poisoned /\ pairD >= 0 /\ pairNext = i)
          => clock >= events[i + 1].t_us + pairD]_vars

\* C5: with no pause(), toggle() or stop() call and the synth lock never
\* poisoned, finished is set only when every event has been dispatched once,
\* in list order, and every sink call of the timeline has been made.
C5_FinishedOnlyAfterAllEvents ==
    (finished /\ ~ctlUsed /\ ~poisoned) =>
        /\ i = Len(events)
        /\ dispatched = CursorPrefix(Len(events))
        /\ sinkCalls = SinkCallsOf(events)

\* an undisturbed run of a two-event timeline has finished
C5_Witness ==
    /\ finished
    /\ ~ctlUsed
    /\ ~poisoned
    /\ Len(events) = 2
    /\ Len(dispatched) = 2

\* everything the conductor thread reads or writes, but the number of stop
\* messages still queued
threadView == <<events, paused, finished, poisoned, pc, paused_since,
                paused_total_us, i, wake, clock, dispatched, sinkCalls>>

\* C6: a pause() when the flag is already set, a resume() when it is already
\* clear and a stop() after the thread has exited change nothing; a stop()
\* after an earlier stop() only adds a message to the channel, which the
\* thread never reads because it leaves its loop at the first one it receives.
C6_ControlCallsIdempotent ==
    [][/\ (Pause /\ paused) => UNCHANGED synthVars
       /\ (Resume /\ ~paused) => UNCHANGED synthVars
       /\ (Stop /\ pc = "done") => UNCHANGED synthVars
       /\ (Stop /\ sinkAtStop # -1) => (stop_rx' > 0 \/ stopSeen \/ pc = "done")
                                          /\ UNCHANGED threadView
       /\ stopSeen => pc' \in {"finish", "done"}]_vars

\* two stop() calls are queued while the pause flag is set
C6_Witness ==
    /\ stop_rx = 2
    /\ paused
    /\ ~finished


\* C19 as stated: while the pause flag is set, from the moment pause()
\* returns until the next resume() or toggle(), the thread dispatches no
\* event and does not advance its cursor.
C19_NoDispatchWhilePaused ==
    (paused /\ dispAtPause >= 0) =>
        /\ Len(dispatched) = dispAtPause
        /\ i = dispAtPause

\* C19 amended: in that interval the thread dispatches at most one event,
\* the one of the loop iteration that had loaded the flag before pause()
\* set it, and it dispatches none and leaves its cursor alone once its
\* pause check has seen the flag.
C19_AtMostOneDispatchWhilePaused ==
    /\ []((paused /\ dispAtPause >= 0) =>
            /\ Len(dispatched) <= dispAtPause + 1
            /\ i = Len(dispatched)
            /\ Len(dispatched) = dispAtPause + 1 =>
                 pc \notin {"read_clock", "wait_sleep", "dispatch"})
    /\ [][(paused /\ paused_since # -1) =>
            (dispatched' = dispatched /\ sinkCalls' = sinkCalls /\ i' = i)]_vars

\* one event went to the sink after pause() had returned, and the thread
\* now sleeps in its paused branch with the second event still to come
C19_Witness ==
    /\ mode = "hold"
    /\ paused
    /\ dispAtPause = 0
    /\ Len(sinkCalls) = 1
    /\ Len(events) = 2
    /\ i = 1
    /\ pc = "pause_sleep"
    /\ paused_since # -1

\* C20 as stated: once the Player is dropped, and the channel closed with
\* it, the thread leaves its loop at its next stop check.
C20_DropStopsThread ==
    [][(dropped /\ pc = "stop_check" /\ pc' # "stop_check") =>
         pc' = "finish"]_vars

\* a call on the Player that changes something the thread can see
ControlCall == Pause \/ Resume \/ Toggle \/ Stop \/ Drop

\* C21 as stated: whenever the thread's cursor has reached the end of the
\* event list, the thread eventually sets finished unless a further control
\* call is made, whatever the value of the pause flag: in a behaviour whose
\* control calls come to an end, the cursor at the end leads to finished.
C21_EndLeadsToFinished ==
    \/ []<><<ControlCall>>_vars
    \/ (i = Len(events)) ~> finished

\* C22: no event is dispatched early. Every sink call is made by the dispatch
\* branch for the event under the cursor, at a moment when logical now, the
\* wall-clock micros since the thread's start minus the accumulated paused
\* micros, is at least that event's timestamp.
C22_NoEarlyDispatch ==
    [][(sinkCalls' # sinkCalls \/ dispatched' # dispatched) =>
          /\ pc = "dispatch"
          /\ sinkCalls' = sinkCalls \o SinkCall(events[i + 1])
          /\ NowUs(clock) >= events[i + 1].t_us]_vars

\* a NoteOn stamped one tick after the start went to the sink after the
\* thread had accumulated a paused span
C22_Witness ==
    /\ paused_total_us > 0
    /\ Len(events) >= 1
    /\ events[1].t_us = TickUs
    /\ events[1].msg.kind = "NoteOn"
    /\ Len(sinkCalls) = 1

\* what one call, run alone, makes of the flag
ApplyCall(op, flag) ==
    CASE op = "pause"  -> TRUE
      [] op = "resume" -> FALSE
      [] op = "toggle" -> ~flag

\* the final flag values the calls of the callers in cs can give when they
\* run one after the other, in any order
RECURSIVE SerialFinals(_, _)
SerialFinals(cs, flag) ==
    IF cs = {} THEN {flag}
    ELSE UNION {SerialFinals(cs \ {c}, ApplyCall(callers[c].op, flag)) : c \in cs}

AllReturned == \A c \in Callers : callers[c].at = "returned"

\* C23 as stated: when calls on one Player run concurrently, the final value
\* of the pause flag is the result of some serial order of those calls; in
\* particular concurrent toggles, an even number of them, leave the flag at
\* its original value.
C23_ToggleIsAtomic ==
    (mode = "callers" /\ AllReturned) =>
        /\ paused \in SerialFinals(Callers, flag0)
        /\ ((\A c \in Callers : callers[c].op = "toggle") /\ MaxCallers % 2 = 0)
              => paused = flag0

\* C24: finished is written only by the conductor thread, once, as its last
\* action. Once it is true it stays true under any later pause(), resume(),
\* toggle() or stop(), the thread takes no further step and no sink call is
\* made.
C24_FinishedSetOnceAndLast ==
    /\ [](finished <=> pc = "done")
    /\ [][/\ (finished' # finished) => (Finish /\ finished')
          /\ finished => /\ finished'
                         /\ pc' = "done"
                         /\ sinkCalls' = sinkCalls
                         /\ dispatched' = dispatched
                         /\ i' = i]_vars

\* the thread has finished a timeline it dispatched from; a stop() made
\* after its exit found the receiver gone, and the pause flag is set
C24_Witness ==
    /\ finished
    /\ Len(sinkCalls) >= 1
    /\ sinkAtStop = Len(sinkCalls)
    /\ ~stopSeen
    /\ stop_rx = 0
    /\ paused

\* the thread has left, or is leaving, its loop
Exited == pc \in {"finish", "done"}

\* C25 as stated: a failure in the dispatch branch, of the sink call or of
\* taking the synth lock, never halts the walk. The thread leaves the branch
\* with the cursor one further and goes on with its loop, and it does not
\* exit before the end of the list is reached or stop() has been called.
C25_FailureNeverHalts ==
    /\ [](Exited => (i = Len(events) \/ sinkAtStop # -1))
    /\ [][(pc = "dispatch" /\ pc' # "dispatch") =>
            (i' = i + 1 /\ pc' = "stop_check")]_vars

\* C25 amended: a sink call that returns Err never halts the walk. The thread
\* advances its cursor by one and goes on to its next iteration exactly as
\* after a call that returned Ok, and it exits before the end of the list only
\* when it has received a stop message or found the synth lock poisoned.
C25_SinkErrNeverHalts ==
    /\ [](Exited => (i = Len(events) \/ stopSeen \/ poisoned))
    /\ [][(pc = "dispatch" /\ pc' # "dispatch" /\ ~poisoned) =>
            /\ i' = i + 1
            /\ dispatched' = Append(dispatched, i)
            /\ pc' = "stop_check"
            /\ ~finished']_vars

\* the sink call of the first event returned Err and the second event was
\* dispatched after it
C25_Witness ==
    /\ mode = "sink"
    /\ sinkErrAt = {0}
    /\ Len(events) = 2
    /\ Len(sinkCalls) = 2
    /\ dispatched = <<0, 1>>

\* the paused micros the thread has counted, with the span still open
PausedSoFar ==
    paused_total_us + (IF paused_since # -1 THEN clock - paused_since ELSE 0)

\* C26: the accumulated paused duration never exceeds the wall-clock time
\* elapsed since the thread's start, so the saturating subtraction of the
\* clock read never clamps, and the logical-now values of successive loop
\* iterations are non-decreasing, under any sequence of control calls.
C26_LogicalNowMonotonic ==
    /\ [](/\ paused_total_us >= 0
          /\ PausedSoFar <= clock
          /\ NowUs(clock) = clock - paused_total_us)
    /\ [][lastNow' >= lastNow]_vars

\* the thread read its clock after a paused span had been accumulated and
\* computed a logical now that is past zero and behind the wall clock
C26_Witness ==
    /\ mode = "now"
    /\ paused_total_us > 0
    /\ lastNow > 0
    /\ lastNow = clock - paused_total_us
    /\ pc = "dispatch"

----------------------------------------------------------------------------
(* Properties of the decoding loop of mus_to_smf *)

\* the time value that follows the instruction at st.i, zero when it has
\* none or the loop is left before it is read
TimeValueAfter(stream, st) ==
    LET ev == stream[st.i + 1]
        st1 == MusInstr(stream, st)
    IN  IF st1.brk \/ ev < 128 THEN 0
        ELSE U28(read_var_time(SubSeq(stream, st1.i + 1, Len(stream))).val)

\* for each event the loop emits, in order, the sum of the time values that
\* precede the emitting instruction in the stream
RECURSIVE TicksBefore(_, _, _, _)
TicksBefore(stream, st, seen, acc) ==
    IF st.brk \/ st.i >= Len(stream) THEN acc
    ELSE LET st1 == MusInstr(stream, st)
             emitted == Len(st1.track) > Len(st.track)
         IN  TicksBefore(stream,
                         MusDelta(stream, stream[st.i + 1], st1),
                         seen + TimeValueAfter(stream, st),
                         IF emitted THEN Append(acc, seen) ELSE acc)

\* sum of the deltas of the first k events of a track
RECURSIVE DeltaSum(_, _)
DeltaSum(track, k) == IF k = 0 THEN 0 ELSE DeltaSum(track, k - 1) + track[k].delta

\* C27 as stated: elapsed ticks are conserved. For every event the decoder
\* emits, the sum of the emitted deltas up to it equals the sum of all time
\* values that precede it in the stream: an instruction that emits no event
\* leaves the pending delta as it is.
C27_TicksConserved ==
    (mode = "mus" /\ smf.ok) =>
        LET track == smf.tracks[1]
            before == TicksBefore(StreamOf(mus), MusLoopInit, 0, <<>>)
        IN  /\ Len(before) = Len(track) - 2
            /\ \A k \in 1..Len(before) : DeltaSum(track, k + 1) = before[k]

\* the velocity byte a play-note at st.i carries, -1 when it carries none or
\* is not a play-note, or is cut off before it
ExplicitVel(stream, st) ==
    LET ev == stream[st.i + 1]
        n == Len(stream)
    IN  IF (ev \div 16) % 8 = 1 /\ st.i + 2 < n /\ stream[st.i + 2] >= 128
          THEN stream[st.i + 3]
          ELSE -1

\* the loop from st on keeps its velocity memory as C28 says: `vels` holds,
\* by MUS channel, the latest explicit velocity byte seen on that channel,
\* 127 when there was none
RECURSIVE VelocityMemoryKept(_, _, _)
VelocityMemoryKept(stream, st, vels) ==
    IF st.brk \/ st.i >= Len(stream) THEN TRUE
    ELSE LET ev == stream[st.i + 1]
             ch_mus == ev % 16
             st1 == MusInstr(stream, st)
             v == ExplicitVel(stream, st)
             vels1 == IF v >= 0 THEN [vels EXCEPT ![ch_mus] = v] ELSE vels
             last == st1.track[Len(st1.track)]
             playNote == (ev \div 16) % 8 = 1 /\ Len(st1.track) > Len(st.track)
         IN  /\ st1.last_vel = vels1
             /\ (playNote /\ v = -1) =>
                    /\ last.kind = "NoteOn"
                    /\ last.ch = map_channel(ch_mus)
                    /\ last.b = Min(127, vels[ch_mus])
             /\ (playNote /\ v >= 0) => last.b = Min(127, v)
             /\ VelocityMemoryKept(stream,
                                   MusDelta(stream, ev, st1), vels1)

\* C28: a play-note on source channel c without a velocity byte emits a
\* NoteOn whose velocity is min(127, v), v being the most recent explicit
\* velocity byte seen on channel c, or 127 when there was none; the
\* remembered velocity of a channel is changed only by a play-note with an
\* explicit velocity byte on that channel.
C28_VelocityMemory ==
    (mode = "mus" /\ smf.ok) =>
        VelocityMemoryKept(StreamOf(mus), MusLoopInit, [c \in 0..15 |-> 127])

\* a velocity of 90 was given on channel 0, then one of 50 on channel 1,
\* and the play-note on channel 0 that follows without a velocity byte
\* came out with velocity 90
C28_Witness ==
    /\ mode = "mus"
    /\ smf.ok
    /\ StreamOf(mus) = <<16, 188, 90, 17, 190, 50, 16, 60>>
    /\ Len(smf.tracks[1]) = 5
    /\ smf.tracks[1][4].b = 90
    /\ smf.tracks[1][3].b = 50

\* the destination channel C29 gives a source channel
DestChannel(c) ==
    IF c = 15 THEN 9
    ELSE IF c \in 9..14 THEN c + 1
    ELSE c

\* C29: the decoder sends source channel 15 to destination channel 9, source
\* channels 9..14 to 10..15 and leaves 0..8 unchanged; the mapping is a
\* bijection on 0..15, so events from two distinct source channels are never
\* emitted on the same destination channel.
C29_ChannelMapBijective ==
    /\ \A c \in 0..15 : map_channel(c) = DestChannel(c)
    /\ {map_channel(c) : c \in 0..15} = 0..15
    /\ (mode = "mus" /\ smf.ok /\ Len(StreamOf(mus)) = 4) =>
          LET c1 == StreamOf(mus)[1] % 16
              c2 == StreamOf(mus)[3] % 16
              track == smf.tracks[1]
          IN  /\ Len(track) = 4
              /\ track[2].ch = DestChannel(c1)
              /\ track[3].ch = DestChannel(c2)
              /\ c1 # c2 => track[2].ch # track[3].ch

\* a play-note on source channel 15 and one on source channel 9 were emitted
\* on destination channels 9 and 10
C29_Witness ==
    /\ mode = "mus"
    /\ smf.ok
    /\ StreamOf(mus) = <<31, 60, 25, 62>>
    /\ smf.tracks[1][2].kind = "NoteOn"
    /\ smf.tracks[1][2].ch = 9
    /\ smf.tracks[1][3].ch = 10

\* the bend C30 gives a pitch-wheel byte
ClampedBend(v) ==
    LET x == 8192 + (v - 128) * 64
    IN  IF x < 0 THEN 0 ELSE IF x > 16383 THEN 16383 ELSE x

ControllerTable == <<0, 1, 7, 10, 11, 91, 93, 64, 67, 120, 123>>

\* C31: a controller-change instruction consumes exactly two payload bytes,
\* the controller id and the value. Id 0 emits a ProgramChange with the
\* value byte as program number, ids 1..11 emit a ControlChange whose
\* controller number is the table's, and every other id emits no event,
\* while the bytes that follow are decoded as the next instruction. (Values
\* are compared up to 127 here; what becomes of a larger byte is C36.)
C31_ControllerChange ==
    (mode = "mus" /\ smf.ok /\ (StreamOf(mus)[1] \div 16) % 8 = 4) =>
        LET stream == StreamOf(mus)
            id == stream[2]
            val == stream[3]
            track == smf.tracks[1]
            emits == id \in 0..11
            note == track[Len(track) - 1]
        IN  /\ Len(track) = IF emits THEN 4 ELSE 3
            /\ note.kind = "NoteOn" /\ note.ch = 0 /\ note.a = 60
            /\ note.delta = IF stream[1] >= 128 THEN 3 ELSE 0
            /\ id = 0 =>
                 /\ track[2].kind = "ProgramChange"
                 /\ val <= 127 => track[2].a = val
            /\ id \in 1..11 =>
                 /\ track[2].kind = "Controller"
                 /\ track[2].a = ControllerTable[id]
                 /\ val <= 127 => track[2].b = val
            /\ emits => track[2].ch = map_channel(stream[1] % 16)

\* a volume change (id 3) of 100 on the rhythm channel came out as
\* controller 7 on channel 9, and the play-note behind it was decoded
C31_Witness ==
    /\ mode = "mus"
    /\ smf.ok
    /\ StreamOf(mus) = <<79, 3, 100, 16, 60>>
    /\ smf.tracks[1][2] = TrackEvent(0, "Controller", 9, 7, 100)
    /\ smf.tracks[1][3].kind = "NoteOn"

\* the bytes of a time value at the head of bytes: up to and including the
\* first byte whose top bit is clear, all of them when there is none
RECURSIVE TimeBytes(_)
TimeBytes(bytes) ==
    IF bytes = <<>> THEN <<>>
    ELSE IF Head(bytes) < 128 THEN <<Head(bytes)>>
    ELSE <<Head(bytes)>> \o TimeBytes(Tail(bytes))

\* the most-significant-first base-128 number of the low 7 bits of bytes, as
\* a pair of a high part without limit and a 16-bit low part
RECURSIVE Base128(_, _)
Base128(bytes, acc) ==
    IF bytes = <<>> THEN acc
    ELSE LET lo == acc.lo * 128 + (Head(bytes) % 128)
         IN  Base128(Tail(bytes),
                     [hi |-> acc.hi * 128 + (lo \div Limb), lo |-> lo % Limb])

\* C32 as stated: the time value read after a delta-flagged instruction
\* consumes the bytes up to and including the first one whose top bit is
\* clear (all remaining bytes if there is none) and equals the
\* most-significant-first base-128 number of their low 7 bits; a value too
\* large for 32 bits is not wrapped into a smaller tick count.
C32_VarTimeIsBase128 ==
    (mode = "var" /\ pc # "input") =>
        LET tail == Tail(StreamOf(mus))
            r == read_var_time(tail)
            tb == TimeBytes(tail)
            number == Base128(tb, U32(0))
        IN  /\ r.used = Len(tb)
            /\ IF number.hi < Limb THEN r.val = number ELSE r.val = U32Max


----------------------------------------------------------------------------
(* Properties of the tick-to-time conversion of build_timeline *)

\* the events of one track stamped so that a tempo change starts a new
\* segment: a timestamp is the timestamp of the latest tempo event of the
\* track before it plus the ticks since that event at that event's tempo
RECURSIVE SegmentWalk(_, _, _, _, _, _)
SegmentWalk(tr, k, seg_us, seg_ticks, us_per_qn, ppq) ==
    IF k > Len(tr) THEN <<>>
    ELSE LET ev == tr[k]
             ticks == seg_ticks + ev.delta
             t_us == seg_us + TicksToUs(ticks, ppq, us_per_qn)
             change == ev.kind = "Tempo"
         IN  Emit(ev, t_us)
               \o SegmentWalk(tr, k + 1,
                              IF change THEN t_us ELSE seg_us,
                              IF change THEN 0 ELSE ticks,
                              IF change THEN ev.a ELSE us_per_qn,
                              ppq)

\* the events of all tracks, track after track, stamped by segments
RECURSIVE SegmentWalks(_, _, _, _)
SegmentWalks(tracks, n, us_per_qn, ppq) ==
    IF n > Len(tracks) THEN <<>>
    ELSE SegmentWalk(tracks[n], 1, 0, 0, us_per_qn, ppq)
           \o SegmentWalks(tracks, n + 1, us_per_qn, ppq)

\* the files whose deltas are whole quarter notes: every conversion of their
\* ticks is exact, so that no rounding enters a comparison of timestamps
WholeQuarters ==
    \A n \in 1..Len(smf.tracks) : \A k \in 1..Len(smf.tracks[n]) :
        smf.tracks[n][k].delta % tl.ppq = 0

\* C33: a tempo change in build_timeline is not retroactive: the events of a
\* track before a tempo event, and the tempo event itself, are stamped with
\* the tempo in force before it, and every later event of the track with the
\* tempo event's timestamp plus the ticks since the change at the new tempo
\* (compared on the files of whole quarter notes).
C33_TempoNotRetroactive ==
    (mode = "timeline" /\ pc = "built" /\ WholeQuarters) =>
        tl.events = SortByKey(SegmentWalks(smf.tracks, 1,
                                           tl.initial_us_per_qn, tl.ppq))

\* two event lists merged with the order inside each kept: the earlier head
\* goes first, the head of the first list on equal timestamps
RECURSIVE MergeKeepingOrder(_, _)
MergeKeepingOrder(first, second) ==
    IF first = <<>> THEN second
    ELSE IF second = <<>> THEN first
    ELSE IF Head(first).t_us <= Head(second).t_us
      THEN <<Head(first)>> \o MergeKeepingOrder(Tail(first), second)
      ELSE <<Head(second)>> \o MergeKeepingOrder(first, Tail(second))

\* the events of the tracks from the n-th on, each track's in track order,
\* merged with an earlier track first on equal timestamps
RECURSIVE MergedTracks(_, _, _, _)
MergedTracks(tracks, n, us_per_qn, ppq) ==
    IF n > Len(tracks) THEN <<>>
    ELSE MergeKeepingOrder(WalkTrack(tracks[n], 1, 0, us_per_qn, ppq),
                           MergedTracks(tracks, n + 1, us_per_qn, ppq))

\* C34: for every input of build_timeline, tempo changes in either direction
\* included, two events of one track are in the merged timeline in the order
\* they have in their track, and events of equal timestamps keep their
\* original order, inside a track and an earlier track before a later one:
\* the timeline is the order-keeping merge of the tracks.
C34_TrackOrderKept ==
    (mode = "timeline" /\ pc = "built") =>
        tl.events = MergedTracks(smf.tracks, 1, tl.initial_us_per_qn, tl.ppq)

----------------------------------------------------------------------------
(* Properties of the stream index of mus_to_smf *)

\* the index over the iterations of the loop from state st on: each
\* iteration moves it forward by at least the instruction byte, the delta
\* that follows never moves it back, and it never passes the end of the
\* stream, a break included
RECURSIVE IndexAdvancesInRange(_, _)
IndexAdvancesInRange(stream, st) ==
    IF st.brk \/ st.i >= Len(stream) THEN st.i <= Len(stream)
    ELSE LET st1 == MusInstr(stream, st)
             st2 == MusDelta(stream, stream[st.i + 1], st1)
         IN  /\ st1.i > st.i
             /\ st1.i <= Len(stream)
             /\ st2.i >= st1.i
             /\ st2.i <= Len(stream)
             /\ IndexAdvancesInRange(stream, st2)

\* the number of iterations the loop makes from state st on
RECURSIVE Iterations(_, _)
Iterations(stream, st) ==
    IF st.brk \/ st.i >= Len(stream) THEN 0
    ELSE 1 + Iterations(stream,
                        MusDelta(stream, stream[st.i + 1], MusInstr(stream, st)))

\* C35: for every input byte sequence mus_to_smf ends with Ok or Err and
\* reads nothing outside the declared score range: an accepted score range
\* lies inside the input, the stream index is at most the stream length at
\* every step and strictly increases on every loop iteration, so that the
\* loop makes at most as many iterations as the stream has bytes.
C35_IndexInRange ==
    (mode = "mus" /\ pc # "input") =>
        /\ pc \in {"decoded", "built", "error"}
        /\ smf.ok = (pc # "error")
        /\ smf.ok =>
             /\ ScoreStart(mus) + ScoreLen(mus) <= Len(mus)
             /\ IndexAdvancesInRange(StreamOf(mus), MusLoopInit)
             /\ Iterations(StreamOf(mus), MusLoopInit) <= Len(StreamOf(mus))

\* the decoded score D0 00 D0 81: two end-of-measure instructions with a
\* delta, the second of which has a time value whose last byte announces
\* another one that the stream does not hold; the index stops at the stream
\* length after two iterations, without a break
C35_Witness ==
    /\ mode = "mus"
    /\ pc = "decoded"
    /\ StreamOf(mus) = <<208, 0, 208, 129>>
    /\ Iterations(StreamOf(mus), MusLoopInit) = 2
    /\ LET st == MusLoop(StreamOf(mus), MusLoopInit)
       IN  ~st.brk /\ st.i = Len(StreamOf(mus))

----------------------------------------------------------------------------
(* Properties of the fields of the events mus_to_smf emits *)

\* the fields of a track event are within the ranges of its kind
FieldsInRange(e) ==
    /\ e.ch \in 0..15
    /\ e.kind \in {"NoteOn", "NoteOff"} => e.a \in 0..127 /\ e.b \in 0..127
    /\ e.kind = "ProgramChange" => e.a \in 0..127
    /\ e.kind = "Controller" => e.a \in 0..127 /\ e.b \in 0..127
    /\ e.kind = "PitchBend" => e.a \in 0..16383

\* a source byte brought into 0..127 by clamping
Clamp7(b) == Min(b, 127)

\* over the iterations of the loop from state st on: the event an iteration
\* pushes has its fields in range, and the velocity, the program or the
\* controller value it carries is the source byte clamped
RECURSIVE SourceBytesClamped(_, _)
SourceBytesClamped(stream, st) ==
    IF st.brk \/ st.i >= Len(stream) THEN TRUE
    ELSE LET ev == stream[st.i + 1]
             ty == (ev \div 16) % 8
             st1 == MusInstr(stream, st)
             pushed == Len(st1.track) > Len(st.track)
             e == st1.track[Len(st1.track)]
             first == stream[st.i + 2]
             second == stream[st.i + 3]
         IN  /\ pushed =>
                  /\ FieldsInRange(e)
                  /\ (ty = 1 /\ first >= 128) => e.b = Clamp7(second)
                  /\ (ty = 4 /\ first = 0) => e.a = Clamp7(second)
                  /\ (ty = 4 /\ first # 0) => e.b = Clamp7(second)
             /\ SourceBytesClamped(stream, MusDelta(stream, ev, st1))

\* C36: every event the decoder emits, for every score, has its fields within
\* the ranges of the generic events (channel 0..15, key, velocity, program
\* and controller value 0..127, pitch bend 0..16383), and a velocity, a
\* program or a controller value of 128 or more in the score is clamped to
\* the range, never wrapped to an unrelated value.
C36_FieldsClamped ==
    (mode = "mus" /\ pc # "input" /\ smf.ok) =>
        /\ \A k \in 1..Len(smf.tracks[1]) : FieldsInRange(smf.tracks[1][k])
        /\ SourceBytesClamped(StreamOf(mus), MusLoopInit)

=============================================================================
